---- MODULE Spec2Model ----
(***************************************************************************)
(* Calendar-date arithmetic of the `whenever` extension: Date (date.rs)    *)
(* and the naive/local DateTime built on it (naive_datetime.rs,            *)
(* local_datetime.rs).                                                     *)
(*                                                                         *)
(* The library is a set of pure functions on immutable values.  Each       *)
(* function of the source is an operator below, computed step by step as   *)
(* the source computes it, with the source's integer widths.  The state    *)
(* machine is one caller: it is idle, makes one call with inputs drawn     *)
(* from bounded sets (Call... actions, one per operation), holds the       *)
(* returned value, and drops it again (Return).                            *)
(*                                                                         *)
(* Arithmetic follows the optimised build that is shipped: integer         *)
(* overflow wraps (two's complement) and debug_assert! is compiled out.    *)
(* Slice indexing stays bounds-checked in every build: an index outside    *)
(* the array aborts the call, which is the value Abort below.              *)
(***************************************************************************)
EXTENDS Integers, Sequences, FiniteSets, TLC

(***************************************************************************)
(* Integer widths.  TLC's integers are 32 bits wide, so i32               *)
(* operations are computed without ever forming a value outside i32.       *)
(***************************************************************************)
I32_MAX == (2^30 - 1) + 2^30
I32_MIN == -I32_MAX - 1
I16_MAX == 2^15 - 1
I16_MIN == -(2^15)

\* whether x + y leaves i32
add_overflows(x, y) ==
    \/ y > 0 /\ x > I32_MAX - y
    \/ y < 0 /\ x < I32_MIN - y

\* i32 `+` of the optimised build: two's complement wrap-around
wrapping_add(x, y) ==
    IF y > 0 /\ x > I32_MAX - y THEN (x - I32_MAX - 1) + (y - I32_MAX - 1)
    ELSE IF y < 0 /\ x < I32_MIN - y THEN (x + I32_MAX + 1) + (y + I32_MAX + 1)
    ELSE x + y

\* i32 unary `-`: only i32::MIN has no negation and wraps to itself
wrapping_neg(x) == IF x = I32_MIN THEN I32_MIN ELSE -x

\* i32 `-`
wrapping_sub(x, y) ==
    IF y = I32_MIN
    THEN wrapping_add(wrapping_add(x, I32_MAX), 1)
    ELSE wrapping_add(x, -y)

\* i32::checked_add
checked_add(x, y) == IF add_overflows(x, y) THEN [some |-> FALSE, val |-> 0]
                     ELSE [some |-> TRUE, val |-> x + y]

\* i8 arithmetic result, wrapped
WrapI8(x) == ((x + 128) % 256) - 128
\* u8 arithmetic result, wrapped
WrapU8(x) == x % 256
\* u16 arithmetic result, wrapped
WrapU16(x) == x % 65536

(***************************************************************************)
(* Option<T>                                                               *)
(***************************************************************************)
None == [some |-> FALSE, val |-> 0]
Some(x) == [some |-> TRUE, val |-> x]

(***************************************************************************)
(* date.rs: constants                                                      *)
(***************************************************************************)
MAX_YEAR == 9999
MIN_YEAR == 1
MIN_ORD == 1
MAX_ORD == 3652059
DAYS_IN_400Y == 146097
DAYS_IN_100Y == 36524
DAYS_IN_4Y == 1461

\* 0-based arrays of the source, as sequences indexed from 1: index i is at i + 1
DAYS_IN_MONTH == <<0, 31, 28, 31, 30, 31, 30, 31, 31, 30, 31, 30, 31>>
DAYS_BEFORE_MONTH == <<0, 0, 31, 59, 90, 120, 151, 181, 212, 243, 273, 304, 334>>

\* A call that panics (array index out of bounds) returns nothing; where the
\* source's return type is a bare Date this value stands for "the call aborted".
Abort == [year |-> -1, month |-> -1, day |-> -1]

Date(y, m, d) == [year |-> y, month |-> m, day |-> d]

SINGLETON_MIN == Date(1, 1, 1)
SINGLETON_MAX == Date(9999, 12, 31)

(***************************************************************************)
(* date.rs: helpers                                                        *)
(***************************************************************************)
\* Faulty variant of is_leap: the Julian rule, every fourth year
is_leap_every_4(year) == year % 4 = 0

is_leap(year) == (year % 4 = 0 /\ year % 100 # 0) \/ year % 400 = 0

\* month is the u8 the caller passes; only 0..12 index the array
days_in_month(year, month) ==
    IF month = 2 /\ is_leap(year) THEN 29 ELSE DAYS_IN_MONTH[month + 1]

\* Faulty variant of days_before_year: the 400-year correction left out
days_before_year_no_400(year) ==
    LET y == year - 1
    IN  y * 365 + (y \div 4) - (y \div 100)

days_before_year(year) ==
    LET y == year - 1
    IN  y * 365 + (y \div 4) - (y \div 100) + (y \div 400)

days_before_month(year, month) ==
    LET days == DAYS_BEFORE_MONTH[month + 1]
    IN  IF month > 2 /\ is_leap(year) THEN days + 1 ELSE days

(***************************************************************************)
(* date.rs: impl Date                                                      *)
(***************************************************************************)
increment(self) ==
    IF self = Abort THEN Abort
    ELSE IF self.day < days_in_month(self.year, self.month)
         THEN [self EXCEPT !.day = @ + 1]
         ELSE [self EXCEPT !.day = 1, !.month = (self.month % 12) + 1]

\* saturating_sub on u8
saturating_sub(x, y) == IF x - y < 0 THEN 0 ELSE x - y

decrement(self) ==
    IF self = Abort THEN Abort
    ELSE IF self.day > 1
         THEN [self EXCEPT !.day = @ - 1]
         ELSE LET prev == WrapU8(self.month - 1)
              IN  IF prev > 12
                  THEN Abort   \* DAYS_IN_MONTH[255]: index out of bounds
                  ELSE [self EXCEPT !.day = days_in_month(self.year, prev),
                                    !.month = saturating_sub(self.month, 1)]

ord(self) ==
    days_before_year(self.year) + days_before_month(self.year, self.month) + self.day

\* Faulty variant of from_ord_unchecked: of the two Dec 31 edge cases only
\* n1 = 4 is handled, the last day of a 400-year cycle (n100 = 4) is not
from_ord_unchecked_no_century(ordinal) ==
    LET n0   == ordinal - 1
        n400 == n0 \div DAYS_IN_400Y
        r400 == n0 % DAYS_IN_400Y
        n100 == r400 \div DAYS_IN_100Y
        r100 == r400 % DAYS_IN_100Y
        n4   == r100 \div DAYS_IN_4Y
        r4   == r100 % DAYS_IN_4Y
        n1   == r4 \div 365
        n    == r4 % 365
        year == WrapU16(400 * n400 + 100 * n100 + 4 * n4 + n1 + 1)
    IN  IF n1 = 4
        THEN Date(year - 1, 12, 31)
        ELSE LET month0     == WrapU8((n + 50) \div 32)
                 monthdays0 == days_before_month(year, month0)
                 month      == IF n < monthdays0 THEN month0 - 1 ELSE month0
                 monthdays  == IF n < monthdays0
                               THEN monthdays0 - days_in_month(year, month)
                               ELSE monthdays0
             IN  Date(year, month, WrapU8(n - monthdays) + 1)

from_ord_unchecked(ordinal) ==
    LET n0   == ordinal - 1
        n400 == n0 \div DAYS_IN_400Y
        r400 == n0 % DAYS_IN_400Y
        n100 == r400 \div DAYS_IN_100Y
        r100 == r400 % DAYS_IN_100Y
        n4   == r100 \div DAYS_IN_4Y
        r4   == r100 % DAYS_IN_4Y
        n1   == r4 \div 365
        n    == r4 % 365
        year == WrapU16(400 * n400 + 100 * n100 + 4 * n4 + n1 + 1)
    IN  IF n1 = 4 \/ n100 = 4
        THEN Date(year - 1, 12, 31)
        ELSE LET month0     == WrapU8((n + 50) \div 32)
                 monthdays0 == days_before_month(year, month0)
                 month      == IF n < monthdays0 THEN month0 - 1 ELSE month0
                 monthdays  == IF n < monthdays0
                               THEN monthdays0 - days_in_month(year, month)
                               ELSE monthdays0
             IN  Date(year, month, WrapU8(n - monthdays) + 1)

\* Faulty variant of from_ord: the lower end of the range excluded
from_ord_exclusive(ordinal) ==
    IF ordinal > MIN_ORD /\ ordinal <= MAX_ORD
    THEN Some(from_ord_unchecked(ordinal))
    ELSE None

from_ord(ordinal) ==
    IF ordinal >= MIN_ORD /\ ordinal <= MAX_ORD
    THEN Some(from_ord_unchecked(ordinal))
    ELSE None

shift_days(self, days) ==
    LET sum == checked_add(ord(self), days)
    IN  IF sum.some THEN from_ord(sum.val) ELSE None

\* Faulty variant of shift_months: the day is kept, not clamped
shift_months_no_clamp(self, months) ==
    LET total == wrapping_sub(wrapping_add(self.month, months), 1)
        month == (total % 12) + 1
        year  == self.year + (total \div 12)
    IN  IF year >= MIN_YEAR /\ year <= MAX_YEAR
        THEN Some(Date(year, month, self.day))
        ELSE None

shift_months(self, months) ==
    LET total == wrapping_sub(wrapping_add(self.month, months), 1)
        month == (total % 12) + 1
        year  == self.year + (total \div 12)
    IN  IF year >= MIN_YEAR /\ year <= MAX_YEAR
        THEN Some(Date(year, month,
                       IF self.day > days_in_month(year, month)
                       THEN days_in_month(year, month)
                       ELSE self.day))
        ELSE None

\* Faulty variant of shift: the days applied before the months
shift_days_first(self, years, months, days) ==
    LET moved == shift_days(self, days)
    IN  IF moved.some
        THEN shift_months(moved.val, wrapping_add(months, years * 12))
        ELSE None

\* Option::and_then(|date| date.shift_days(days))
shift(self, years, months, days) ==
    LET moved == shift_months(self, wrapping_add(months, years * 12))
    IN  IF moved.some THEN shift_days(moved.val, days) ELSE None

\* The i32 sums of shift_months and shift as the machine forms them: does
\* `self.month as i32 + months - 1`, or `months + years as i32 * 12`, leave
\* the 32-bit range (an abort where overflow is checked, a wrap-around
\* where it is not)?
shift_months_overflows(self, months) ==
    \/ add_overflows(self.month, months)
    \/ add_overflows(wrapping_add(self.month, months), -1)

shift_overflows(self, years, months) ==
    \/ add_overflows(months, years * 12)
    \/ shift_months_overflows(self, wrapping_add(months, years * 12))

from_longs(year, month, day) ==
    IF year < MIN_YEAR \/ year > MAX_YEAR THEN None
    ELSE IF month < 1 \/ month > 12 THEN None
    ELSE IF day >= 1 /\ day <= days_in_month(year, month)
         THEN Some(Date(year, month, day))
         ELSE None

\* the arguments are a u16 and two u8; || short-circuits before days_in_month
new(year, month, day) ==
    IF \/ year = 0
       \/ year > MAX_YEAR
       \/ month < 1
       \/ month > 12
       \/ day < 1
       \/ day > days_in_month(year, month)
    THEN None
    ELSE Some(Date(year, month, day))

(***************************************************************************)
(* Host values.  An object is its type and its payload; every type other   *)
(* than "Foreign" belongs to this extension module.                        *)
(***************************************************************************)
Obj(type, val) == [type |-> type, val |-> val]
PyType_GetModule(type) == IF type = "Foreign" THEN "other" ELSE "whenever"

DateDelta(months, days) == [months |-> months, days |-> days]

\* PyReturn: Ok(object), Err(exception kind), the NotImplemented singleton,
\* or no return at all because the call panicked
Ok(obj) == [tag |-> "Ok", obj |-> obj, exc |-> ""]
Err(kind) == [tag |-> "Err", obj |-> Obj("None", 0), exc |-> kind]
NotImplemented == [tag |-> "NotImplemented", obj |-> Obj("None", 0), exc |-> ""]
Panicked == [tag |-> "Panicked", obj |-> Obj("None", 0), exc |-> ""]

\* derive(Ord) on Date: lexicographic on (year, month, day)
date_lt(a, b) ==
    \/ a.year < b.year
    \/ a.year = b.year /\ a.month < b.month
    \/ a.year = b.year /\ a.month = b.month /\ a.day < b.day

(***************************************************************************)
(* date.rs: operators and methods                                          *)
(***************************************************************************)
\* Faulty variant of date_difference: after stepping back one month the day
\* is raised by the length of a's month, not of the month stepped back to
date_difference_own_month(a, b) ==
    LET months0 == wrapping_add(a.month - b.month, 12 * (a.year - b.year))
        day0    == a.day
        first   == shift_months(b, wrapping_add((a.year - b.year) * 12,
                                                WrapI8(a.month - b.month)))
    IN  IF ~first.some THEN Panicked
        ELSE IF date_lt(a, b) /\ date_lt(first.val, a)
        THEN LET months == wrapping_add(months0, 1)
                 moved  == shift_months(b, months)
                 day    == WrapI8(day0 - days_in_month(a.year, a.month))
             IN  IF ~moved.some THEN Panicked
                 ELSE Ok(Obj("DateDelta",
                             DateDelta(months, WrapI8(day - moved.val.day))))
        ELSE IF date_lt(b, a) /\ date_lt(a, first.val)
        THEN LET months == wrapping_sub(months0, 1)
                 moved  == shift_months(b, months)
             IN  IF ~moved.some THEN Panicked
                 ELSE LET day == WrapI8(day0 + days_in_month(a.year, a.month))
                      IN  Ok(Obj("DateDelta",
                                 DateDelta(months, WrapI8(day - moved.val.day))))
        ELSE Ok(Obj("DateDelta",
                    DateDelta(months0, WrapI8(day0 - first.val.day))))

\* Faulty variant of date_difference: an overshoot is left uncorrected
date_difference_uncorrected(a, b) ==
    LET months0 == wrapping_add(a.month - b.month, 12 * (a.year - b.year))
        first   == shift_months(b, wrapping_add((a.year - b.year) * 12,
                                                WrapI8(a.month - b.month)))
    IN  IF ~first.some THEN Panicked
        ELSE Ok(Obj("DateDelta", DateDelta(months0, WrapI8(a.day - first.val.day))))

\* Faulty variant of date_difference: an overshoot below a is corrected by
\* stepping one month further back
date_difference_corrects_backwards(a, b) ==
    LET months0 == wrapping_add(a.month - b.month, 12 * (a.year - b.year))
        day0    == a.day
        first   == shift_months(b, wrapping_add((a.year - b.year) * 12,
                                                WrapI8(a.month - b.month)))
    IN  IF ~first.some THEN Panicked
        ELSE IF date_lt(a, b) /\ date_lt(first.val, a)
        THEN LET months == wrapping_sub(months0, 1)
                 moved  == shift_months(b, months)
                 day    == WrapI8(day0 - days_in_month(a.year, a.month))
             IN  IF ~moved.some THEN Panicked
                 ELSE Ok(Obj("DateDelta",
                             DateDelta(months, WrapI8(day - moved.val.day))))
        ELSE IF date_lt(b, a) /\ date_lt(a, first.val)
        THEN LET months == wrapping_sub(months0, 1)
                 moved  == shift_months(b, months)
             IN  IF ~moved.some THEN Panicked
                 ELSE LET day == WrapI8(day0 + days_in_month(moved.val.year,
                                                             moved.val.month))
                      IN  Ok(Obj("DateDelta",
                                 DateDelta(months, WrapI8(day - moved.val.day))))
        ELSE Ok(Obj("DateDelta",
                    DateDelta(months0, WrapI8(day0 - first.val.day))))

\* Date - Date (the first branch of __sub__); unwrap() of None panics
date_difference(a, b) ==
    LET months0 == wrapping_add(a.month - b.month, 12 * (a.year - b.year))
        day0    == a.day
        first   == shift_months(b, wrapping_add((a.year - b.year) * 12,
                                                WrapI8(a.month - b.month)))
    IN  IF ~first.some THEN Panicked
        ELSE IF date_lt(a, b) /\ date_lt(first.val, a)
        THEN LET months == wrapping_add(months0, 1)
                 moved  == shift_months(b, months)
                 day    == WrapI8(day0 - days_in_month(a.year, a.month))
             IN  IF ~moved.some THEN Panicked
                 ELSE Ok(Obj("DateDelta",
                             DateDelta(months, WrapI8(day - moved.val.day))))
        ELSE IF date_lt(b, a) /\ date_lt(a, first.val)
        THEN LET months == wrapping_sub(months0, 1)
                 moved  == shift_months(b, months)
             IN  IF ~moved.some THEN Panicked
                 ELSE LET day == WrapI8(day0 + days_in_month(moved.val.year,
                                                             moved.val.month))
                      IN  Ok(Obj("DateDelta",
                                 DateDelta(months, WrapI8(day - moved.val.day))))
        ELSE Ok(Obj("DateDelta",
                    DateDelta(months0, WrapI8(day0 - first.val.day))))

\* the i8 values __sub__ forms on the way: the month difference, the day
\* after the correction, and the final day difference
date_difference_i8_values(a, b) ==
    LET months0 == a.month - b.month + 12 * (a.year - b.year)
        first   == shift_months(b, (a.year - b.year) * 12 + (a.month - b.month))
    IN  IF ~first.some THEN {a.month - b.month}
        ELSE IF date_lt(a, b) /\ date_lt(first.val, a)
        THEN LET moved == shift_months(b, months0 + 1)
                 day   == a.day - days_in_month(a.year, a.month)
             IN  {a.month - b.month, day}
                    \cup (IF moved.some THEN {day - moved.val.day} ELSE {})
        ELSE IF date_lt(b, a) /\ date_lt(a, first.val)
        THEN LET moved == shift_months(b, months0 - 1)
             IN  {a.month - b.month}
                    \cup (IF moved.some
                          THEN {a.day + days_in_month(moved.val.year, moved.val.month),
                                a.day + days_in_month(moved.val.year, moved.val.month)
                                    - moved.val.day}
                          ELSE {})
        ELSE {a.month - b.month, a.day - first.val.day}

\* shift_months(m).and_then(|date| date.shift_days(d)).ok_or_value_err(..)
shift_or_value_err(date, months, days) ==
    LET moved == shift_months(date, months)
        final == IF moved.some THEN shift_days(moved.val, days) ELSE None
    IN  IF final.some THEN Ok(Obj("Date", final.val)) ELSE Err("ValueError")

date__sub__(obj_a, obj_b) ==
    IF obj_b.type = obj_a.type
    THEN date_difference(obj_a.val, obj_b.val)
    ELSE IF /\ PyType_GetModule(obj_a.type) = PyType_GetModule(obj_b.type)
            /\ obj_b.type = "DateDelta"
         THEN shift_or_value_err(obj_a.val, wrapping_neg(obj_b.val.months),
                                 wrapping_neg(obj_b.val.days))
         ELSE NotImplemented

date__add__(obj_a, obj_b) ==
    IF /\ PyType_GetModule(obj_a.type) = PyType_GetModule(obj_b.type)
       /\ obj_b.type = "DateDelta"
    THEN shift_or_value_err(obj_a.val, obj_b.val.months, obj_b.val.days)
    ELSE NotImplemented

\* replace(): every keyword given overrides the component; from_longs validates
date_replace(date, year, month, day) ==
    LET made == from_longs(year, month, day)
    IN  IF made.some THEN Ok(Obj("Date", made.val)) ELSE Err("ValueError")

(***************************************************************************)
(* date.rs: text form and pickled form                                     *)
(***************************************************************************)
\* Text is a sequence of one-character strings.
DIGITS == <<"0", "1", "2", "3", "4", "5", "6", "7", "8", "9">>

is_ascii_digit(c) == \E i \in 1..10 : DIGITS[i] = c

\* get_digit!: c - b'0' for an ASCII digit (the caller returns None otherwise)
get_digit(s, index) == (CHOOSE i \in 1..10 : DIGITS[i] = s[index + 1]) - 1

\* "{:0width}" of a non-negative number: at least `width` digits
RECURSIVE zero_padded(_, _)
zero_padded(n, width) ==
    IF width <= 1 /\ n < 10 THEN <<DIGITS[n + 1]>>
    ELSE zero_padded(n \div 10, width - 1) \o <<DIGITS[(n % 10) + 1]>>

\* impl Display for Date: "{:04}-{:02}-{:02}"
date_fmt(self) ==
    zero_padded(self.year, 4) \o <<"-">> \o zero_padded(self.month, 2)
        \o <<"-">> \o zero_padded(self.day, 2)

parse_all(s) ==
    IF Len(s) = 10 /\ s[5] = "-" /\ s[8] = "-"
    THEN IF \A i \in {0, 1, 2, 3, 5, 6, 8, 9} : is_ascii_digit(s[i + 1])
         THEN new(WrapU16(get_digit(s, 0) * 1000 + get_digit(s, 1) * 100
                          + get_digit(s, 2) * 10 + get_digit(s, 3)),
                  WrapU8(get_digit(s, 5) * 10 + get_digit(s, 6)),
                  WrapU8(get_digit(s, 8) * 10 + get_digit(s, 9)))
         ELSE None
    ELSE None

from_default_format(s) ==
    LET parsed == parse_all(s)
    IN  IF parsed.some THEN Ok(Obj("Date", parsed.val)) ELSE Err("ValueError")

\* pack![year, month, day]: the fields' little-endian bytes, in order
date_pack(self) == <<self.year % 256, self.year \div 256, self.month, self.day>>

\* unpickle: the length is checked, the components are not
date_unpickle(packed) ==
    IF Len(packed) # 4 THEN Err("ValueError")
    ELSE Ok(Obj("Date", Date(packed[1] + 256 * packed[2], packed[3], packed[4])))

(***************************************************************************)
(* Time of day (time.rs, of which only the callers are at hand)            *)
(***************************************************************************)
S_PER_DAY == 86400

Time(h, m, s, ns) == [hour |-> h, minute |-> m, second |-> s, nanos |-> ns]

total_seconds(time) == time.hour * 3600 + time.minute * 60 + time.second

set_seconds(time, secs) ==
    Time(secs \div 3600, (secs % 3600) \div 60, secs % 60, time.nanos)

(***************************************************************************)
(* local_datetime.rs / naive_datetime.rs: impl DateTime                    *)
(***************************************************************************)
DateTime(date, time) == [date |-> date, time |-> time]

\* i32 -> u32 cast.  In every arm of small_shift_unchecked the operand is
\* day_seconds reduced by the arm's whole days, so it is never negative and the
\* cast keeps its value.
AsU32(x) == x

\* Faulty variant of small_shift_unchecked: the two-day arms take off one day
small_shift_unchecked_one_day(self, secs) ==
    LET date        == self.date
        time        == self.time
        day_seconds == wrapping_add(total_seconds(time), secs)
        days        == day_seconds \div S_PER_DAY
    IN  CASE days = 0  -> DateTime(date, set_seconds(time, AsU32(day_seconds)))
          [] days = 1  -> DateTime(increment(date),
                                   set_seconds(time, AsU32(day_seconds - S_PER_DAY)))
          [] days = -1 -> DateTime(decrement(date),
                                   set_seconds(time, AsU32(day_seconds + S_PER_DAY)))
          [] days = 2  -> DateTime(increment(increment(date)),
                                   set_seconds(time, AsU32(day_seconds - S_PER_DAY)))
          [] days = -2 -> DateTime(decrement(decrement(date)),
                                   set_seconds(time, AsU32(day_seconds + S_PER_DAY)))
          [] OTHER     -> DateTime(Abort, time)   \* unreachable!()

small_shift_unchecked(self, secs) ==
    LET date        == self.date
        time        == self.time
        day_seconds == wrapping_add(total_seconds(time), secs)
        days        == day_seconds \div S_PER_DAY
    IN  CASE days = 0  -> DateTime(date, set_seconds(time, AsU32(day_seconds)))
          [] days = 1  -> DateTime(increment(date),
                                   set_seconds(time, AsU32(day_seconds - S_PER_DAY)))
          [] days = -1 -> DateTime(decrement(date),
                                   set_seconds(time, AsU32(day_seconds + S_PER_DAY)))
          [] days = 2  -> DateTime(increment(increment(date)),
                                   set_seconds(time, AsU32(day_seconds - S_PER_DAY * 2)))
          [] days = -2 -> DateTime(decrement(decrement(date)),
                                   set_seconds(time, AsU32(day_seconds + S_PER_DAY * 2)))
          [] OTHER     -> DateTime(Abort, time)   \* unreachable!()

\* the scrutinee of the match: day_seconds.div_euclid(S_PER_DAY)
small_shift_days(self, secs) ==
    wrapping_add(total_seconds(self.time), secs) \div S_PER_DAY

\* the argument of set_seconds in the arm selected; -1 where no arm but
\* unreachable!() is
small_shift_seconds(self, secs) ==
    LET day_seconds == wrapping_add(total_seconds(self.time), secs)
        days        == day_seconds \div S_PER_DAY
    IN  CASE days = 0  -> AsU32(day_seconds)
          [] days = 1  -> AsU32(day_seconds - S_PER_DAY)
          [] days = -1 -> AsU32(day_seconds + S_PER_DAY)
          [] days = 2  -> AsU32(day_seconds - S_PER_DAY * 2)
          [] days = -2 -> AsU32(day_seconds + S_PER_DAY * 2)
          [] OTHER     -> -1

(***************************************************************************)
(* 128-bit nanosecond counts.  A count too wide for one machine word of    *)
(* the model is kept as whole days, seconds of the day and nanoseconds of  *)
(* the second, the whole days themselves as a low signed 32-bit limb       *)
(* `days` and a high limb `hi`:                                            *)
(*   value = (hi * 2^32 + days) * NS_PER_DAY + secs * 10^9 + nanos         *)
(* with 0 <= secs < 86400 and 0 <= nanos < 10^9 (the Euclidean quotient    *)
(* and remainder by NS_PER_DAY, which is what shift_nanos takes).          *)
(***************************************************************************)
NS_PER_S == 1000000000

Nanos(hi, days, secs, ns) == [hi |-> hi, days |-> days, secs |-> secs, nanos |-> ns]

NanosZero == Nanos(0, 0, 0, 0)

\* i128 `+`
nanos_add(x, y) ==
    LET ns     == x.nanos + y.nanos
        c0     == ns \div NS_PER_S
        ss     == x.secs + y.secs + c0
        c1     == ss \div S_PER_DAY
        d0     == wrapping_add(x.days, y.days)
        h0     == IF add_overflows(x.days, y.days)
                  THEN (IF x.days > 0 THEN 1 ELSE -1) ELSE 0
        d1     == wrapping_add(d0, c1)
        h1     == IF add_overflows(d0, c1) THEN 1 ELSE 0
    IN  Nanos(x.hi + y.hi + h0 + h1, d1, ss % S_PER_DAY, ns % NS_PER_S)

\* i128 unary `-`
nanos_neg(x) ==
    LET whole == x.secs = 0 /\ x.nanos = 0
        hi    == IF x.days = I32_MIN /\ whole THEN 1 - x.hi ELSE -x.hi
        days  == IF whole
                 THEN (IF x.days = I32_MIN THEN I32_MIN ELSE -x.days)
                 ELSE (IF x.days = I32_MIN THEN I32_MAX ELSE -x.days - 1)
        secs  == IF whole THEN 0
                 ELSE IF x.nanos = 0 THEN S_PER_DAY - x.secs
                 ELSE S_PER_DAY - 1 - x.secs
        ns    == IF x.nanos = 0 THEN 0 ELSE NS_PER_S - x.nanos
    IN  Nanos(hi, days, secs, ns)

\* Time::total_nanos, widened to i128
total_nanos(time) == Nanos(0, 0, total_seconds(time), time.nanos)

\* Time::from_total_nanos_unchecked, of a count below NS_PER_DAY
from_total_nanos_unchecked(secs, ns) ==
    Time(secs \div 3600, (secs % 3600) \div 60, secs % 60, ns)

SINGLETON_DT_MIN == DateTime(Date(1, 1, 1), Time(0, 0, 0, 0))
SINGLETON_DT_MAX == DateTime(Date(9999, 12, 31), Time(23, 59, 59, 999999999))

\* Date::shift as local_datetime.rs calls it: months, then days
shift_date(self, months, days) ==
    LET moved == shift(self.date, 0, months, days)
    IN  IF moved.some THEN Some(DateTime(moved.val, self.time)) ELSE None

\* Faulty variant of shift_nanos: the carry into the day is dropped
shift_nanos_same_day(self, nanos) ==
    LET new_time == nanos_add(total_nanos(self.time), nanos)
    IN  Some(DateTime(self.date,
                      from_total_nanos_unchecked(new_time.secs, new_time.nanos)))

\* Faulty variant of shift_nanos: only a carry forward moves the date
shift_nanos_forward_only(self, nanos) ==
    LET new_time   == nanos_add(total_nanos(self.time), nanos)
        days_delta == new_time.days
        moved      == IF days_delta > 0 THEN shift_days(self.date, days_delta)
                      ELSE Some(self.date)
    IN  IF moved.some
        THEN Some(DateTime(moved.val,
                           from_total_nanos_unchecked(new_time.secs, new_time.nanos)))
        ELSE None

\* `as i32` keeps the low 32 bits of the day quotient
shift_nanos(self, nanos) ==
    LET new_time   == nanos_add(total_nanos(self.time), nanos)
        days_delta == new_time.days
        moved      == IF days_delta # 0 THEN shift_days(self.date, days_delta)
                      ELSE Some(self.date)
    IN  IF moved.some
        THEN Some(DateTime(moved.val,
                           from_total_nanos_unchecked(new_time.secs, new_time.nanos)))
        ELSE None

(***************************************************************************)
(* local_datetime.rs: the Python-facing operations of LocalDateTime.       *)
(* Keyword arguments are a sequence of <<key, value>> pairs.               *)
(***************************************************************************)
DateTimeDelta(ddelta, tdelta) == [ddelta |-> ddelta, tdelta |-> tdelta]

\* `value == Py_True()`: the True singleton itself, not any truthy value
is_true(value) == value.type = "bool" /\ value.val.bool

\* the exact units a keyword can carry, as nanosecond counts
hours_nanos(h) == Nanos(0, (h * 3600) \div S_PER_DAY, (h * 3600) % S_PER_DAY, 0)
nanoseconds_nanos(n) == IF n >= 0 THEN Nanos(0, 0, 0, n) ELSE nanos_neg(Nanos(0, 0, 0, -n))

\* what _shift_method gathers from its arguments
Units(months, days, nanos, ignore_dst, err) ==
    [months |-> months, days |-> days, nanos |-> nanos,
     ignore_dst |-> ignore_dst, err |-> err]

\* set_units_from_kwargs: one calendar or exact unit; an unknown key is refused
set_units_from_kwargs(key, value, u) ==
    CASE key = "months"      -> [u EXCEPT !.months = value.val.int]
      [] key = "days"        -> [u EXCEPT !.days = value.val.int]
      [] key = "hours"       ->
            [u EXCEPT !.nanos = nanos_add(u.nanos, hours_nanos(value.val.int))]
      [] key = "nanoseconds" ->
            [u EXCEPT !.nanos = nanos_add(u.nanos, nanoseconds_nanos(value.val.int))]
      [] OTHER               -> [u EXCEPT !.err = "TypeError"]

\* handle_kwargs with the closure of _shift_method
RECURSIVE handle_kwargs(_, _)
handle_kwargs(kwargs, u) ==
    IF kwargs = <<>> \/ u.err # "" THEN u
    ELSE LET key   == Head(kwargs)[1]
             value == Head(kwargs)[2]
         IN  handle_kwargs(Tail(kwargs),
                 IF key = "ignore_dst"
                 THEN [u EXCEPT !.ignore_dst = is_true(value)]
                 ELSE set_units_from_kwargs(key, value, u))

_shift_method(slf, args, kwargs, negate) ==
    LET zero == Units(0, 0, NanosZero, FALSE, "")
        flag == IF kwargs = <<>> THEN zero
                ELSE IF Len(kwargs) = 1 /\ kwargs[1][1] = "ignore_dst"
                     THEN [zero EXCEPT !.ignore_dst = is_true(kwargs[1][2])]
                     ELSE [zero EXCEPT !.err = "TypeError"]
        one  == IF flag.err # "" THEN flag
                ELSE CASE args[1].type = "TimeDelta" ->
                            [flag EXCEPT !.nanos = args[1].val]
                       [] args[1].type = "DateDelta" ->
                            [flag EXCEPT !.months = args[1].val.months,
                                         !.days = args[1].val.days]
                       [] args[1].type = "DateTimeDelta" ->
                            [flag EXCEPT !.months = args[1].val.ddelta.months,
                                         !.days = args[1].val.ddelta.days,
                                         !.nanos = args[1].val.tdelta]
                       [] OTHER -> [flag EXCEPT !.err = "TypeError"]
        got  == CASE Len(args) = 1 -> one
                  [] Len(args) = 0 -> handle_kwargs(kwargs, zero)
                  [] OTHER         -> [zero EXCEPT !.err = "TypeError"]
        months == IF negate THEN wrapping_neg(got.months) ELSE got.months
        days   == IF negate THEN wrapping_neg(got.days) ELSE got.days
        nanos  == IF negate THEN nanos_neg(got.nanos) ELSE got.nanos
        moved  == shift_date(slf.val, months, days)
        final  == IF moved.some THEN shift_nanos(moved.val, nanos) ELSE None
    IN  IF got.err # "" THEN Err(got.err)
        ELSE IF nanos # NanosZero /\ ~got.ignore_dst THEN Err("ImplicitDstIgnored")
        ELSE IF final.some THEN Ok(Obj(slf.type, final.val))
        ELSE Err("ValueError")

add(slf, args, kwargs) == _shift_method(slf, args, kwargs, FALSE)

subtract(slf, args, kwargs) == _shift_method(slf, args, kwargs, TRUE)

\* Faulty variant of _shift_operator: a calendar delta is gated too
shift_operator_gates_calendar(obj_a, obj_b, negate) ==
    IF PyType_GetModule(obj_a.type) = PyType_GetModule(obj_b.type)
    THEN Err("ImplicitDstIgnored")
    ELSE NotImplemented

_shift_operator(obj_a, obj_b, negate) ==
    IF PyType_GetModule(obj_a.type) = PyType_GetModule(obj_b.type)
    THEN IF obj_b.type = "DateDelta"
         THEN LET months == IF negate THEN wrapping_neg(obj_b.val.months)
                            ELSE obj_b.val.months
                  days   == IF negate THEN wrapping_neg(obj_b.val.days)
                            ELSE obj_b.val.days
                  moved  == shift_date(obj_a.val, months, days)
              IN  IF moved.some THEN Ok(Obj(obj_a.type, moved.val))
                  ELSE Err("ValueError")
         ELSE IF obj_b.type \in {"DateTimeDelta", "TimeDelta"}
              THEN Err("ImplicitDstIgnored")
              ELSE Err("TypeError")
    ELSE NotImplemented

datetime__add__(obj_a, obj_b) == _shift_operator(obj_a, obj_b, FALSE)

\* Faulty variant of datetime__sub__: the same-type case is not refused first
datetime__sub__without_easy_case(obj_a, obj_b) == _shift_operator(obj_a, obj_b, TRUE)

datetime__sub__(obj_a, obj_b) ==
    IF obj_a.type = obj_b.type
    THEN Err("ImplicitDstIgnored")
    ELSE _shift_operator(obj_a, obj_b, TRUE)

\* derive(Ord) on Time and DateTime: lexicographic on the fields in order
time_lt(a, b) ==
    \/ a.hour < b.hour
    \/ a.hour = b.hour /\ a.minute < b.minute
    \/ a.hour = b.hour /\ a.minute = b.minute /\ a.second < b.second
    \/ a.hour = b.hour /\ a.minute = b.minute /\ a.second = b.second /\ a.nanos < b.nanos

\* Faulty variant of datetime_lt: the time of day compared before the date
datetime_lt_time_first(a, b) ==
    \/ time_lt(a.time, b.time)
    \/ a.time = b.time /\ date_lt(a.date, b.date)

datetime_lt(a, b) ==
    \/ date_lt(a.date, b.date)
    \/ a.date = b.date /\ time_lt(a.time, b.time)

datetime__richcmp__(a_obj, b_obj, cmp) ==
    IF b_obj.type = a_obj.type
    THEN LET a == a_obj.val
             b == b_obj.val
         IN  Ok(Obj("bool",
                CASE cmp = "Py_LT" -> datetime_lt(a, b)
                  [] cmp = "Py_LE" -> datetime_lt(a, b) \/ a = b
                  [] cmp = "Py_EQ" -> a = b
                  [] cmp = "Py_NE" -> a # b
                  [] cmp = "Py_GT" -> datetime_lt(b, a)
                  [] cmp = "Py_GE" -> datetime_lt(b, a) \/ a = b))
    ELSE NotImplemented

(***************************************************************************)
(* Exact difference (instant.rs and offset_datetime.rs are not at hand:    *)
(* the linearisation and the override check follow the specification)      *)
(***************************************************************************)
\* Instant::from_datetime(..).total_nanos():
\* ordinal(date) * NS_PER_DAY + total_nanos(time)
instant_total_nanos(date, time) == Nanos(0, ord(date), total_seconds(time), time.nanos)

\* Instant::diff, i128 `-`
instant_diff(a, b) == nanos_add(a, nanos_neg(b))

\* Faulty variant of naive__sub__: the operands taken in the other order
naive__sub__swapped(obj_a, obj_b) ==
    IF obj_a.type = obj_b.type
    THEN Ok(Obj("TimeDelta",
                instant_diff(instant_total_nanos(obj_b.val.date, obj_b.val.time),
                             instant_total_nanos(obj_a.val.date, obj_a.val.time))))
    ELSE _shift_operator(obj_a, obj_b, TRUE)

\* naive_datetime.rs __sub__
naive__sub__(obj_a, obj_b) ==
    IF obj_a.type = obj_b.type
    THEN Ok(Obj("TimeDelta",
                instant_diff(instant_total_nanos(obj_a.val.date, obj_a.val.time),
                             instant_total_nanos(obj_b.val.date, obj_b.val.time))))
    ELSE _shift_operator(obj_a, obj_b, TRUE)

\* check_ignore_dst_kwarg: the only keyword accepted is ignore_dst=True
check_ignore_dst_kwarg(kwargs) ==
    IF Len(kwargs) = 1 /\ kwargs[1][1] = "ignore_dst"
    THEN (IF is_true(kwargs[1][2]) THEN "" ELSE "ImplicitDstIgnored")
    ELSE IF kwargs = <<>> THEN "ImplicitDstIgnored" ELSE "TypeError"

\* local_datetime.rs difference()
difference(slf, args, kwargs) ==
    LET refused == check_ignore_dst_kwarg(kwargs)
    IN  IF refused # "" THEN Err(refused)
        ELSE IF Len(args) # 1 THEN Err("TypeError")
        ELSE IF args[1].type = slf.type
             THEN Ok(Obj("TimeDelta",
                         instant_diff(instant_total_nanos(slf.val.date, slf.val.time),
                                      instant_total_nanos(args[1].val.date,
                                                          args[1].val.time))))
             ELSE Err("TypeError")

(***************************************************************************)
(* Disambiguation.  The timezone lookup is an external collaborator: its   *)
(* answer for a reading is an input, one offset, two offsets (a fold, the  *)
(* earlier occurrence first) or none (a gap, with the offsets in force     *)
(* before and after it).  The resolver itself (zoned_datetime.rs,          *)
(* offset_datetime.rs) is not at hand and follows the specification.       *)
(***************************************************************************)
Unambiguous(offset) == [kind |-> "Unambiguous", first |-> offset, second |-> offset]
Fold(earlier, later) == [kind |-> "Fold", first |-> earlier, second |-> later]
Gap(before, after) == [kind |-> "Gap", first |-> before, second |-> after]

\* a width in seconds as a nanosecond count
seconds_nanos(s) == Nanos(0, s \div S_PER_DAY, s % S_PER_DAY, 0)

Resolved(dt, offset) == [date |-> dt.date, time |-> dt.time, offset |-> offset]

\* Result<_, Ambiguity>, or the out-of-range failure
Resolution(value) == [outcome |-> "Ok", value |-> value]
Ambiguity(kind) == [outcome |-> kind, value |-> Resolved(SINGLETON_DT_MIN, 0)]

\* the resolver of section 4.6: a fold takes one of the two candidates, a gap
\* moves the reading forward by its width or keeps it
resolve_using_disambiguate(dt, lookup, dis) ==
    CASE lookup.kind = "Unambiguous" -> Resolution(Resolved(dt, lookup.first))
      [] lookup.kind = "Fold" ->
            CASE dis \in {"Compatible", "Earlier"} -> Resolution(Resolved(dt, lookup.first))
              [] dis = "Later" -> Resolution(Resolved(dt, lookup.second))
              [] OTHER -> Ambiguity("Fold")
      [] OTHER ->
            CASE dis \in {"Compatible", "Later"} ->
                    LET moved == shift_nanos(dt, seconds_nanos(lookup.second - lookup.first))
                    IN  IF moved.some
                        THEN Resolution(Resolved(moved.val, lookup.second))
                        ELSE Ambiguity("OutOfRange")
              [] dis = "Earlier" -> Resolution(Resolved(dt, lookup.first))
              [] OTHER -> Ambiguity("Gap")

\* Disambiguate::from_only_kwarg: the one keyword `disambiguate`, if any
Disambiguate(value, err) == [value |-> value, err |-> err]

from_only_kwarg(kwargs) ==
    IF kwargs = <<>> THEN Disambiguate("", "")
    ELSE IF Len(kwargs) # 1 \/ kwargs[1][1] # "disambiguate"
         THEN Disambiguate("", "TypeError")
    ELSE CASE kwargs[1][2] = "compatible" -> Disambiguate("Compatible", "")
           [] kwargs[1][2] = "earlier"    -> Disambiguate("Earlier", "")
           [] kwargs[1][2] = "later"      -> Disambiguate("Later", "")
           [] kwargs[1][2] = "raise"      -> Disambiguate("Raise", "")
           [] OTHER                       -> Disambiguate("", "ValueError")

\* the resolution handed back to Python, a failure as the exception given for it
resolved_or_raise(r, type, exc_repeated, exc_skipped) ==
    CASE r.outcome = "Ok"   -> Ok(Obj(type, r.value))
      [] r.outcome = "Fold" -> Err(exc_repeated)
      [] r.outcome = "Gap"  -> Err(exc_skipped)
      [] OTHER              -> Err("ValueError")

\* Faulty variant of naive_assume_tz: the two errors exchanged
naive_assume_tz_exchanged(slf, args, kwargs, lookup) ==
    LET dis == from_only_kwarg(kwargs)
    IN  IF Len(args) # 1 THEN Err("TypeError")
        ELSE IF dis.err # "" THEN Err(dis.err)
        ELSE resolved_or_raise(
                 resolve_using_disambiguate(slf.val, lookup,
                     IF dis.value = "" THEN "Raise" ELSE dis.value),
                 "ZonedDateTime", "SkippedTime", "AmbiguousTime")

\* naive_datetime.rs assume_tz: Ambiguity::Fold is raised as exc_ambiguous,
\* Ambiguity::Gap as exc_skipped
naive_assume_tz(slf, args, kwargs, lookup) ==
    LET dis == from_only_kwarg(kwargs)
    IN  IF Len(args) # 1 THEN Err("TypeError")
        ELSE IF dis.err # "" THEN Err(dis.err)
        ELSE resolved_or_raise(
                 resolve_using_disambiguate(slf.val, lookup,
                     IF dis.value = "" THEN "Raise" ELSE dis.value),
                 "ZonedDateTime", "AmbiguousTime", "SkippedTime")

\* local_datetime.rs assume_tz: no keyword means Compatible
assume_tz(slf, args, kwargs, lookup) ==
    LET dis == from_only_kwarg(kwargs)
    IN  IF Len(args) # 1 THEN Err("TypeError")
        ELSE IF dis.err # "" THEN Err(dis.err)
        ELSE resolved_or_raise(
                 resolve_using_disambiguate(slf.val, lookup,
                     IF dis.value = "" THEN "Compatible" ELSE dis.value),
                 "ZonedDateTime", "AmbiguousTime", "SkippedTime")

\* Faulty variant of assume_system_tz: the exceptions passed in the other order
assume_system_tz_exchanged(slf, args, kwargs, lookup) ==
    LET dis == from_only_kwarg(kwargs)
    IN  IF args # <<>> THEN Err("TypeError")
        ELSE IF dis.err # "" THEN Err(dis.err)
        ELSE resolved_or_raise(
                 resolve_using_disambiguate(slf.val, lookup,
                     IF dis.value = "" THEN "Compatible" ELSE dis.value),
                 "SystemDateTime", "SkippedTime", "AmbiguousTime")

\* local_datetime.rs assume_system_tz
assume_system_tz(slf, args, kwargs, lookup) ==
    LET dis == from_only_kwarg(kwargs)
    IN  IF args # <<>> THEN Err("TypeError")
        ELSE IF dis.err # "" THEN Err(dis.err)
        ELSE resolved_or_raise(
                 resolve_using_disambiguate(slf.val, lookup,
                     IF dis.value = "" THEN "Compatible" ELSE dis.value),
                 "SystemDateTime", "AmbiguousTime", "SkippedTime")

(***************************************************************************)
(* Rounding.  Time::round and round::parse_args (time.rs, round.rs) are    *)
(* not at hand; the rounding of the time of day follows section 4.7.  An   *)
(* increment is whole seconds dividing a day, or nanoseconds dividing a    *)
(* second.                                                                 *)
(***************************************************************************)
Increment(secs, ns) == [secs |-> secs, nanos |-> ns]

Rounded(time, next_day) == [time |-> time, next_day |-> next_day]

\* does the remainder r (of the increment inc) round up?  twice is twice r
round_up(mode, r_zero, twice_cmp_inc, quotient_odd) ==
    CASE mode = "floor"                -> FALSE
      [] mode = "ceil"                 -> ~r_zero
      [] mode = "half_floor"           -> twice_cmp_inc > 0
      [] mode = "half_ceil"            -> twice_cmp_inc >= 0
      [] OTHER  (* half_even *)        ->
            twice_cmp_inc > 0 \/ (twice_cmp_inc = 0 /\ quotient_odd)

Sign(x) == IF x > 0 THEN 1 ELSE IF x < 0 THEN -1 ELSE 0

\* Time::round: the rounded time of day and the carry into the next day
time_round(time, inc, mode) ==
    LET secs == total_seconds(time)
    IN  IF inc.secs = 0
        THEN LET q    == time.nanos \div inc.nanos
                 r    == time.nanos % inc.nanos
                 up   == round_up(mode, r = 0, Sign(2 * r - inc.nanos), q % 2 = 1)
                 ns   == (IF up THEN q + 1 ELSE q) * inc.nanos
                 s    == secs + ns \div NS_PER_S
             IN  Rounded(from_total_nanos_unchecked(s % S_PER_DAY, ns % NS_PER_S),
                         s \div S_PER_DAY)
        ELSE LET q     == secs \div inc.secs
                 r     == secs % inc.secs
                 twice == 2 * r + (2 * time.nanos) \div NS_PER_S
                 frac  == (2 * time.nanos) % NS_PER_S
                 cmp   == IF twice # inc.secs THEN Sign(twice - inc.secs)
                          ELSE Sign(frac)
                 up    == round_up(mode, r = 0 /\ time.nanos = 0, cmp, q % 2 = 1)
                 s     == (IF up THEN q + 1 ELSE q) * inc.secs
             IN  Rounded(from_total_nanos_unchecked(s % S_PER_DAY, 0), s \div S_PER_DAY)

\* local_datetime.rs round()
round(slf, inc, mode) ==
    LET date    == slf.val.date
        rounded == time_round(slf.val.time, inc, mode)
    IN  IF rounded.next_day = 1
        THEN IF date # SINGLETON_MAX
             THEN Ok(Obj(slf.type, DateTime(increment(date), rounded.time)))
             ELSE Err("ValueError")
        ELSE Ok(Obj(slf.type, DateTime(date, rounded.time)))

(***************************************************************************)
(* Parsing of the combined text.  Time::parse_all (time.rs) is not at      *)
(* hand and follows the time text format of the specification.             *)
(***************************************************************************)
\* the fractional digits s[from..], read most significant first
RECURSIVE parse_fraction(_, _, _)
parse_fraction(s, from, acc) ==
    IF from > Len(s) THEN acc
    ELSE parse_fraction(s, from + 1, acc * 10 + get_digit(s, from - 1))

\* Time::parse_all: HH:MM:SS, then nothing or '.' and 1 to 9 digits
time_parse_all(s) ==
    IF Len(s) < 8 \/ s[3] # ":" \/ s[6] # ":" THEN None
    ELSE IF ~(\A i \in {0, 1, 3, 4, 6, 7} : is_ascii_digit(s[i + 1])) THEN None
    ELSE LET hour   == get_digit(s, 0) * 10 + get_digit(s, 1)
             minute == get_digit(s, 3) * 10 + get_digit(s, 4)
             second == get_digit(s, 6) * 10 + get_digit(s, 7)
         IN  IF hour > 23 \/ minute > 59 \/ second > 59 THEN None
             ELSE IF Len(s) = 8 THEN Some(Time(hour, minute, second, 0))
             ELSE IF s[9] # "." \/ Len(s) = 9 \/ Len(s) > 18 THEN None
             ELSE IF ~(\A i \in 10..Len(s) : is_ascii_digit(s[i])) THEN None
             ELSE Some(Time(hour, minute, second,
                            parse_fraction(s, 10, 0) * 10 ^ (18 - Len(s))))

\* Option::zip
zip(a, b) == IF a.some /\ b.some THEN Some(DateTime(a.val, b.val)) ELSE None

\* Faulty variant of parse_date_and_time: the date digits are not validated
parse_date_and_time_any_day(s) ==
    LET d == SubSeq(s, 1, 10)
    IN  zip(IF \A i \in {0, 1, 2, 3, 5, 6, 8, 9} : is_ascii_digit(d[i + 1])
            THEN Some(Date(get_digit(d, 0) * 1000 + get_digit(d, 1) * 100
                           + get_digit(d, 2) * 10 + get_digit(d, 3),
                           get_digit(d, 5) * 10 + get_digit(d, 6),
                           get_digit(d, 8) * 10 + get_digit(d, 9)))
            ELSE None,
            time_parse_all(SubSeq(s, 12, Len(s))))

\* the caller has checked the length and the separator
parse_date_and_time(s) ==
    zip(parse_all(SubSeq(s, 1, 10)), time_parse_all(SubSeq(s, 12, Len(s))))

parse_common_iso(s) ==
    IF Len(s) < 19 THEN Err("ValueError")
    ELSE IF s[11] # "T" THEN Err("ValueError")
    ELSE LET parsed == parse_date_and_time(s)
         IN  IF parsed.some THEN Ok(Obj("LocalDateTime", parsed.val))
             ELSE Err("ValueError")

(***************************************************************************)
(* local_datetime.rs: pickling                                             *)
(***************************************************************************)
\* pack![year, month, day, hour, minute, second, nanos]: the fields'
\* little-endian bytes, in order
datetime_pack(self) ==
    date_pack(self.date)
        \o <<self.time.hour, self.time.minute, self.time.second,
             self.time.nanos % 256, (self.time.nanos \div 256) % 256,
             (self.time.nanos \div 65536) % 256, self.time.nanos \div 16777216>>

\* Faulty variant of datetime_unpickle: the year read most significant byte first
datetime_unpickle_big_endian(packed) ==
    IF Len(packed) # 11 THEN Err("TypeError")
    ELSE Ok(Obj("LocalDateTime",
                DateTime(Date(256 * packed[1] + packed[2], packed[3], packed[4]),
                         Time(packed[5], packed[6], packed[7],
                              packed[8] + 256 * packed[9] + 65536 * packed[10]
                                + 16777216 * packed[11]))))

\* unpickle: the length is checked, the components are not
datetime_unpickle(packed) ==
    IF Len(packed) # 11 THEN Err("TypeError")
    ELSE Ok(Obj("LocalDateTime",
                DateTime(Date(packed[1] + 256 * packed[2], packed[3], packed[4]),
                         Time(packed[5], packed[6], packed[7],
                              packed[8] + 256 * packed[9] + 65536 * packed[10]
                                + 16777216 * packed[11]))))

(***************************************************************************)
(* The proleptic Gregorian calendar, stated independently of the code:     *)
(* what the inputs are drawn from and what the properties compare with.    *)
(***************************************************************************)
LeapYear(y) ==
    IF y % 400 = 0 THEN TRUE ELSE IF y % 100 = 0 THEN FALSE ELSE y % 4 = 0

MonthLength(y, m) ==
    CASE m \in {4, 6, 9, 11} -> 30
      [] m = 2 -> IF LeapYear(y) THEN 29 ELSE 28
      [] OTHER -> 31

IsValidDate(d) ==
    /\ d.year \in 1..9999
    /\ d.month \in 1..12
    /\ d.day \in 1..MonthLength(d.year, d.month)

(***************************************************************************)
(* Bounded inputs                                                          *)
(***************************************************************************)
\* years within YearSpan of a pivot year are sampled in full
YearSpan == 1
\* ordinals within OrdSpan of an anchor ordinal are sampled
OrdSpan == 800

PivotYears == {1, 1900, 2000, 2020, 2023, 9999}

SampleYears == (UNION {(p - YearSpan)..(p + YearSpan) : p \in PivotYears}) \cap (1..9999)

Dates ==
    {d \in [year : SampleYears, month : 1..12, day : 1..31] : IsValidDate(d)}

\* the days at which months begin and end, and one in the middle
EdgeDates == {d \in Dates : d.day \in {1, 2, 15} \/ d.day >= 27}

PairYears == {1, 2023, 2024, 9999}

PairDates == {d \in Dates : d.year \in PairYears /\ d.day \in {1, 15, 28, 29, 30, 31}}

OrdAnchors ==
    {MIN_ORD, DAYS_IN_4Y, DAYS_IN_100Y, 4 * DAYS_IN_100Y, DAYS_IN_400Y,
     5 * DAYS_IN_400Y, 730179, 1000000, MAX_ORD}

Ordinals ==
    (UNION {(n - OrdSpan)..(n + OrdSpan) : n \in OrdAnchors})
        \cup {I32_MIN, -MAX_ORD, MAX_ORD + OrdSpan + 1, I32_MAX}

DayShifts == {0, 1, -1, 31, -366, MAX_ORD - 1, 1 - MAX_ORD, I32_MAX, I32_MIN}

MonthShifts ==
    {0, 1, -1, 2, -2, 11, -11, 12, -12, 13, -13, 25, 9998 * 12, -9998 * 12,
     I32_MAX, I32_MIN}

\* u16 year, u8 month and day handed to new()
NewYears == SampleYears \cup {0, 10000, 65535}
NewMonths == (0..13) \cup {255}
NewDays == (0..32) \cup {255}

\* c_long components handed to from_longs()
LongYears == SampleYears \cup {-1, 0, 10000, 65537}
LongMonths == (-1..13) \cup {257}
LongDays == (-1..32) \cup {257}

Times == {Time(0, 0, 0, 0), Time(12, 30, 15, 500), Time(23, 59, 59, 999999999)}

SmallShifts ==
    {0, 1, -1, S_PER_DAY - 1, 1 - S_PER_DAY, S_PER_DAY, -S_PER_DAY,
     S_PER_DAY + 1, -S_PER_DAY - 1, 2 * S_PER_DAY - 1, 1 - 2 * S_PER_DAY}

DeltaMonths == {0, 1, -1, 12, -13}
DeltaDays == {0, 1, -31, 40}

Texts ==
    {date_fmt(d) : d \in EdgeDates}
        \cup {<<"2", "0", "2", "3", "-", "0", "2", "-", "2", "9">>,
              <<"2", "0", "2", "3", "-", "1", "3", "-", "0", "1">>,
              <<"0", "0", "0", "0", "-", "0", "1", "-", "0", "1">>,
              <<"2", "0", "2", "3", "/", "0", "3", "/", "0", "2">>,
              <<"2", "0", "2", "3", "-", "0", "3", "-", "0", "x">>,
              <<"2", "0", "2", "3", "-", "3", "-", "2">>,
              <<"2", "0", "2", "3", "-", "0", "3", "-", "0", "2", "T">>,
              <<>>}

Payloads ==
    {date_pack(d) : d \in EdgeDates}
        \cup {<<231, 7, 2, 30>>, <<231, 7, 0, 1>>, <<0, 0, 1, 1>>, <<255, 255, 12, 31>>,
              <<231, 7, 3>>, <<231, 7, 3, 2, 0>>, <<>>}

(***************************************************************************)
(* The caller                                                              *)
(***************************************************************************)
VARIABLES pc, op, arg, res

vars == <<pc, op, arg, res>>

NoValue == <<>>

Init ==
    /\ pc = "idle"
    /\ op = "none"
    /\ arg = NoValue
    /\ res = NoValue

\* the call returns: the caller holds the operation's inputs and its result
Call(name, inputs, result) ==
    /\ pc' = "done"
    /\ op' = name
    /\ arg' = inputs
    /\ res' = result

CallNew ==
    /\ pc = "idle"
    /\ \E y \in NewYears, m \in NewMonths, d \in NewDays :
            Call("new", [year |-> y, month |-> m, day |-> d], new(y, m, d))

CallFromLongs ==
    /\ pc = "idle"
    /\ \E y \in LongYears, m \in LongMonths, d \in LongDays :
            Call("from_longs", [year |-> y, month |-> m, day |-> d], from_longs(y, m, d))

CallFromOrd ==
    /\ pc = "idle"
    /\ \E n \in Ordinals : Call("from_ord", [n |-> n], from_ord(n))

CallOrd ==
    /\ pc = "idle"
    /\ \E d \in Dates : Call("ord", [self |-> d], ord(d))

CallIncrement ==
    /\ pc = "idle"
    /\ \E d \in Dates : Call("increment", [self |-> d], increment(d))

CallDecrement ==
    /\ pc = "idle"
    /\ \E d \in Dates : Call("decrement", [self |-> d], decrement(d))

CallShiftDays ==
    /\ pc = "idle"
    /\ \E d \in Dates, n \in DayShifts :
            Call("shift_days", [self |-> d, days |-> n], shift_days(d, n))

CallShiftMonths ==
    /\ pc = "idle"
    /\ \E d \in EdgeDates, n \in MonthShifts :
            Call("shift_months", [self |-> d, months |-> n], shift_months(d, n))

CallShift ==
    /\ pc = "idle"
    /\ \E d \in EdgeDates, y \in {0, 1, -1}, m \in {0, 1, -1, -13}, n \in {0, -1, 31, -40} :
            Call("shift", [self |-> d, years |-> y, months |-> m, days |-> n],
                 shift(d, y, m, n))

CallDateSub ==
    /\ pc = "idle"
    /\ \E a \in PairDates, b \in PairDates :
            Call("date - date", [a |-> a, b |-> b],
                 date__sub__(Obj("Date", a), Obj("Date", b)))

CallDateSubDelta ==
    /\ pc = "idle"
    /\ \E d \in EdgeDates, m \in DeltaMonths, n \in DeltaDays :
            Call("date - delta", [self |-> d, months |-> m, days |-> n],
                 date__sub__(Obj("Date", d), Obj("DateDelta", DateDelta(m, n))))

CallDateAddDelta ==
    /\ pc = "idle"
    /\ \E d \in EdgeDates, m \in DeltaMonths, n \in DeltaDays :
            Call("date + delta", [self |-> d, months |-> m, days |-> n],
                 date__add__(Obj("Date", d), Obj("DateDelta", DateDelta(m, n))))

\* replace(year=.., month=.., day=..): a keyword left out keeps the component
CallReplace ==
    /\ pc = "idle"
    /\ \E d \in PairDates :
        \E y \in {d.year, 0, 2024, 10000}, m \in {d.month, 0, 2, 13},
           n \in {d.day, 0, 29, 32} :
            Call("replace", [self |-> d, year |-> y, month |-> m, day |-> n],
                 date_replace(d, y, m, n))

CallParse ==
    /\ pc = "idle"
    /\ \E s \in Texts : Call("parse", [s |-> s], from_default_format(s))

CallUnpickle ==
    /\ pc = "idle"
    /\ \E packed \in Payloads : Call("unpickle", [packed |-> packed], date_unpickle(packed))

CallSmallShift ==
    /\ pc = "idle"
    /\ \E d \in EdgeDates, t \in Times, secs \in SmallShifts :
            Call("small_shift_unchecked", [self |-> DateTime(d, t), secs |-> secs],
                 small_shift_unchecked(DateTime(d, t), secs))

Return ==
    /\ pc = "done"
    /\ pc' = "idle"
    /\ op' = "none"
    /\ arg' = NoValue
    /\ res' = NoValue

Next ==
    \/ CallNew
    \/ CallFromLongs
    \/ CallFromOrd
    \/ CallOrd
    \/ CallIncrement
    \/ CallDecrement
    \/ CallShiftDays
    \/ CallShiftMonths
    \/ CallShift
    \/ CallDateSub
    \/ CallDateSubDelta
    \/ CallDateAddDelta
    \/ CallReplace
    \/ CallParse
    \/ CallUnpickle
    \/ CallSmallShift
    \/ Return

Spec == Init /\ [][Next]_vars

\* The ordinal conversion alone, over every ordinal of the calendar.
CallFromOrdAny ==
    /\ pc = "idle"
    /\ \E n \in MIN_ORD..MAX_ORD : Call("from_ord", [n |-> n], from_ord(n))

NextOrd ==
    \/ CallFromOrdAny
    \/ Return

SpecOrd == Init /\ [][NextOrd]_vars

(***************************************************************************)
(* The caller of LocalDateTime                                             *)
(***************************************************************************)
\* at most this many keyword arguments in one call
MaxKwargs == 2

DTYears == {1, 2020, 2023, 9999}

DTDates ==
    {d \in Dates : /\ d.year \in DTYears
                   /\ \/ d.month \in {1, 12} /\ d.day \in {1, 31}
                      \/ d.month = 2 /\ d.day >= 28}

DTTimes ==
    {Time(0, 0, 0, 0), Time(0, 0, 0, 1), Time(12, 30, 15, 500000000),
     Time(23, 59, 59, 0), Time(23, 59, 59, 999999999)}

DateTimes == {DateTime(d, t) : d \in DTDates, t \in DTTimes}

\* exact deltas up to the whole span between MIN and MAX, of either sign
PositiveDeltas ==
    {Nanos(0, 0, 0, 1), Nanos(0, 0, 1, 0), Nanos(0, 0, 43200, 500000000),
     Nanos(0, 0, S_PER_DAY - 1, NS_PER_S - 1), Nanos(0, 1, 0, 0),
     Nanos(0, 365, 0, 1), Nanos(0, MAX_ORD - 1, S_PER_DAY - 1, NS_PER_S - 1)}

ExactDeltas == {NanosZero} \cup PositiveDeltas \cup {nanos_neg(n) : n \in PositiveDeltas}

DateDeltas == {DateDelta(m, d) : m \in DeltaMonths, d \in DeltaDays}

\* composite deltas: the signs of the two parts agree
DateTimeDeltas ==
    {DateTimeDelta(DateDelta(0, 0), NanosZero),
     DateTimeDelta(DateDelta(1, 0), NanosZero),
     DateTimeDelta(DateDelta(1, 0), Nanos(0, 0, 3600, 0)),
     DateTimeDelta(DateDelta(0, 40), Nanos(0, 0, 0, 1)),
     DateTimeDelta(DateDelta(-13, -31), nanos_neg(Nanos(0, 1, 0, 0)))}

Deltas ==
    {Obj("TimeDelta", n) : n \in ExactDeltas}
        \cup {Obj("DateDelta", dd) : dd \in DateDeltas}
        \cup {Obj("DateTimeDelta", x) : x \in DateTimeDeltas}

Py_True == Obj("bool", [bool |-> TRUE])
Py_False == Obj("bool", [bool |-> FALSE])
PyLong(n) == Obj("int", [int |-> n])

\* an object of a type defined outside this extension module
Foreign == Obj("Foreign", [id |-> 0])

KwPairs ==
    {<<"ignore_dst", Py_True>>, <<"ignore_dst", Py_False>>, <<"ignore_dst", PyLong(1)>>,
     <<"months", PyLong(1)>>, <<"months", PyLong(-13)>>, <<"days", PyLong(40)>>,
     <<"hours", PyLong(0)>>, <<"hours", PyLong(5)>>, <<"hours", PyLong(-30)>>,
     <<"nanoseconds", PyLong(1)>>, <<"nanoseconds", PyLong(-1)>>,
     <<"fortnights", PyLong(1)>>}

\* keyword arguments: every key at most once
Kwargs ==
    {kw \in UNION {[1..n -> KwPairs] : n \in 0..MaxKwargs} :
        \A i, j \in 1..Len(kw) : i # j => kw[i][1] # kw[j][1]}

FlagKwargs ==
    {<<>>, <<<<"ignore_dst", Py_True>>>>, <<<<"ignore_dst", Py_False>>>>,
     <<<<"ignore_dst", PyLong(1)>>>>, <<<<"months", PyLong(1)>>>>,
     <<<<"ignore_dst", Py_True>>, <<"months", PyLong(1)>>>>}

LocalDateTime(dt) == Obj("LocalDateTime", dt)

CallAdd ==
    /\ pc = "idle"
    /\ \E dt \in DateTimes :
        \/ \E x \in Deltas \cup {PyLong(5)}, kw \in FlagKwargs :
              Call("add", [self |-> dt, args |-> <<x>>, kwargs |-> kw],
                   add(LocalDateTime(dt), <<x>>, kw))
        \/ \E kw \in Kwargs :
              Call("add", [self |-> dt, args |-> <<>>, kwargs |-> kw],
                   add(LocalDateTime(dt), <<>>, kw))
        \/ \E x \in {Obj("TimeDelta", Nanos(0, 0, 1, 0))} :
              Call("add", [self |-> dt, args |-> <<x, x>>, kwargs |-> <<>>],
                   add(LocalDateTime(dt), <<x, x>>, <<>>))

CallSubtract ==
    /\ pc = "idle"
    /\ \E dt \in DateTimes :
        \/ \E x \in Deltas \cup {PyLong(5)}, kw \in FlagKwargs :
              Call("subtract", [self |-> dt, args |-> <<x>>, kwargs |-> kw],
                   subtract(LocalDateTime(dt), <<x>>, kw))
        \/ \E kw \in Kwargs :
              Call("subtract", [self |-> dt, args |-> <<>>, kwargs |-> kw],
                   subtract(LocalDateTime(dt), <<>>, kw))

Operands == Deltas \cup {Foreign, Obj("Date", Date(2023, 1, 1))}

CallDateTimeAdd ==
    /\ pc = "idle"
    /\ \E dt \in DateTimes, x \in Operands :
            Call("datetime + x", [a |-> LocalDateTime(dt), b |-> x],
                 datetime__add__(LocalDateTime(dt), x))

CallDateTimeSub ==
    /\ pc = "idle"
    /\ \E dt \in DateTimes, x \in Operands \cup {LocalDateTime(SINGLETON_DT_MIN)} :
            Call("datetime - x", [a |-> LocalDateTime(dt), b |-> x],
                 datetime__sub__(LocalDateTime(dt), x))

CmpDateTimes == {dt \in DateTimes : dt.date.year \in {1, 2023}}

CallDateTimeRichcmp ==
    /\ pc = "idle"
    /\ \E a \in CmpDateTimes, cmp \in {"Py_LT", "Py_LE", "Py_EQ", "Py_NE", "Py_GT", "Py_GE"} :
          \E b \in {LocalDateTime(x) : x \in CmpDateTimes} \cup {Foreign} :
            Call("richcmp", [a |-> LocalDateTime(a), b |-> b, cmp |-> cmp],
                 datetime__richcmp__(LocalDateTime(a), b, cmp))

NaiveDateTime(dt) == Obj("NaiveDateTime", dt)

CallNaiveSub ==
    /\ pc = "idle"
    /\ \E a \in DateTimes, b \in DateTimes :
            Call("naive - naive", [a |-> a, b |-> b],
                 naive__sub__(NaiveDateTime(a), NaiveDateTime(b)))

DiffDateTimes ==
    {dt \in DateTimes : dt.date.day = 1 /\ dt.time.hour # 12}
        \cup {SINGLETON_DT_MIN, SINGLETON_DT_MAX}

CallDifference ==
    /\ pc = "idle"
    /\ \E a \in DiffDateTimes, kw \in FlagKwargs :
        \/ \E b \in DiffDateTimes :
              Call("difference", [self |-> a, args |-> <<LocalDateTime(b)>>, kwargs |-> kw],
                   difference(LocalDateTime(a), <<LocalDateTime(b)>>, kw))
        \/ \E x \in {Obj("Date", Date(2023, 1, 1))} :
              Call("difference", [self |-> a, args |-> <<x>>, kwargs |-> kw],
                   difference(LocalDateTime(a), <<x>>, kw))
        \/ Call("difference", [self |-> a, args |-> <<>>, kwargs |-> kw],
                difference(LocalDateTime(a), <<>>, kw))

Lookups ==
    {Unambiguous(3600), Unambiguous(-18000), Fold(7200, 3600),
     Gap(3600, 7200), Gap(34200, 36000), Gap(-36000, 50400)}

PolicyKwargs ==
    {<<>>, <<<<"disambiguate", "compatible">>>>, <<<<"disambiguate", "earlier">>>>,
     <<<<"disambiguate", "later">>>>, <<<<"disambiguate", "raise">>>>,
     <<<<"disambiguate", "sideways">>>>, <<<<"tz", "Europe/Paris">>>>}

TzArgs == {<<>>, <<"Europe/Paris">>, <<"Europe/Paris", "Asia/Tokyo">>}

CallNaiveAssumeTz ==
    /\ pc = "idle"
    /\ \E dt \in DateTimes, args \in TzArgs, kw \in PolicyKwargs, lookup \in Lookups :
            Call("naive assume_tz",
                 [self |-> dt, args |-> args, kwargs |-> kw, lookup |-> lookup],
                 naive_assume_tz(NaiveDateTime(dt), args, kw, lookup))

CallAssumeTz ==
    /\ pc = "idle"
    /\ \E dt \in DateTimes, args \in TzArgs, kw \in PolicyKwargs, lookup \in Lookups :
            Call("assume_tz",
                 [self |-> dt, args |-> args, kwargs |-> kw, lookup |-> lookup],
                 assume_tz(LocalDateTime(dt), args, kw, lookup))

CallAssumeSystemTz ==
    /\ pc = "idle"
    /\ \E dt \in DateTimes, args \in TzArgs, kw \in PolicyKwargs, lookup \in Lookups :
            Call("assume_system_tz",
                 [self |-> dt, args |-> args, kwargs |-> kw, lookup |-> lookup],
                 assume_system_tz(LocalDateTime(dt), args, kw, lookup))

Increments ==
    {Increment(0, 1), Increment(0, 1000), Increment(0, 500000000),
     Increment(1, 0), Increment(60, 0), Increment(3600, 0), Increment(S_PER_DAY, 0)}

RoundModes == {"floor", "ceil", "half_floor", "half_ceil", "half_even"}

CallRound ==
    /\ pc = "idle"
    /\ \E dt \in DateTimes, inc \in Increments, mode \in RoundModes :
            Call("round", [self |-> dt, increment |-> inc, mode |-> mode],
                 round(LocalDateTime(dt), inc, mode))

\* at most this many digits after the '.' are sampled
MaxFraction == 10

DateTexts ==
    {<<"2", "0", "2", "3", "-", "0", "3", "-", "0", "2">>,
     <<"2", "0", "2", "3", "-", "0", "2", "-", "2", "9">>,
     <<"2", "0", "2", "4", "-", "0", "2", "-", "2", "9">>,
     <<"0", "0", "0", "0", "-", "0", "1", "-", "0", "1">>,
     <<"2", "0", "2", "3", "-", "1", "3", "-", "0", "1">>,
     <<"9", "9", "9", "9", "-", "1", "2", "-", "3", "1">>,
     <<"2", "0", "2", "3", "/", "0", "3", "/", "0", "2">>,
     <<"2", "0", "2", "3", "-", "0", "3", "-", "0", "x">>}

HmsTexts ==
    {<<"0", "2", ":", "0", "9", ":", "0", "9">>,
     <<"0", "2", ":", "6", "9", ":", "0", "9">>,
     <<"2", "4", ":", "0", "0", ":", "0", "0">>,
     <<"2", "3", ":", "5", "9", ":", "6", "0">>,
     <<"2", "3", ":", "5", "9", ":", "5", "9">>,
     <<"0", "2", "-", "0", "9", "-", "0", "9">>,
     <<"0", "a", ":", "0", "0", ":", "0", "0">>}

\* the digits 1234567890... of a fraction of k digits
Fraction(k) == [i \in 1..k |-> DIGITS[(i % 10) + 1]]

FractionTexts ==
    {<<>>, <<",", "5">>, <<".", "1", "a">>, <<".", "0", "0", "0", "0", "0", "0", "0", "0", "1">>}
        \cup {<<".">> \o Fraction(k) : k \in 0..MaxFraction}

DateTimeTexts ==
    {d \o <<sep>> \o t \o f :
        d \in DateTexts, sep \in {" ", "T", "t", "_"}, t \in HmsTexts, f \in FractionTexts}

\* a valid date and a valid time around a byte that is no separator
OtherSeparatorTexts ==
    {d \o <<sep>> \o t \o f :
        d \in {<<"2", "0", "2", "3", "-", "0", "3", "-", "0", "2">>,
               <<"9", "9", "9", "9", "-", "1", "2", "-", "3", "1">>},
        sep \in {"X", "-", ":", "0"},
        t \in {<<"0", "2", ":", "0", "9", ":", "0", "9">>},
        f \in {<<>>, <<".">> \o Fraction(9)}}

CallParseDateAndTime ==
    /\ pc = "idle"
    /\ \E s \in DateTimeTexts \cup OtherSeparatorTexts :
            Call("parse_date_and_time", [s |-> s], parse_date_and_time(s))

CallParseCommonIso ==
    /\ pc = "idle"
    /\ \E s \in DateTimeTexts \cup OtherSeparatorTexts
                    \cup {SubSeq(x, 1, 18) : x \in DateTimeTexts} :
            Call("parse_common_iso", [s |-> s], parse_common_iso(s))

\* __reduce__ of Date and of LocalDateTime: the packed bytes
CallDateReduce ==
    /\ pc = "idle"
    /\ \E d \in EdgeDates : Call("date reduce", [self |-> d], date_pack(d))

CallDateTimeReduce ==
    /\ pc = "idle"
    /\ \E dt \in DateTimes : Call("datetime reduce", [self |-> dt], datetime_pack(dt))

DateTimePayloads ==
    {datetime_pack(dt) : dt \in DateTimes}
        \cup {<<231, 7, 2, 30, 24, 60, 60, 0, 0, 0, 0>>,
              <<231, 7, 3, 2, 2, 9, 9, 0, 0, 0>>,
              <<231, 7, 3, 2, 2, 9, 9, 0, 0, 0, 0, 0>>,
              <<231, 7, 3, 2>>, <<>>}

CallDateTimeUnpickle ==
    /\ pc = "idle"
    /\ \E packed \in DateTimePayloads :
            Call("datetime unpickle", [packed |-> packed], datetime_unpickle(packed))

\* exact deltas beyond the span between MIN and MAX, up to day counts that
\* need more than 32 bits
WideDeltas ==
    {Nanos(0, MAX_ORD, 0, 0), Nanos(0, -MAX_ORD - 1, 0, 0),
     Nanos(0, I32_MAX, S_PER_DAY - 1, NS_PER_S - 1), Nanos(0, I32_MIN, 0, 0),
     Nanos(1, 0, 0, 0), Nanos(1, 1, 0, 0), Nanos(1, -1, S_PER_DAY - 1, NS_PER_S - 1),
     Nanos(-1, 0, 0, 0), Nanos(-1, I32_MAX, 0, 0), Nanos(2, 365, 0, 1)}

CallShiftNanos ==
    /\ pc = "idle"
    /\ \E dt \in DateTimes, n \in ExactDeltas \cup WideDeltas :
            Call("shift_nanos", [self |-> dt, nanos |-> n], shift_nanos(dt, n))

\* the + and - operators of Date with operands of every kind
CallDateAdd ==
    /\ pc = "idle"
    /\ \E d \in DTDates, x \in Operands \cup {LocalDateTime(SINGLETON_DT_MIN)} :
            Call("date + x", [a |-> Obj("Date", d), b |-> x],
                 date__add__(Obj("Date", d), x))

CallDateSubtract ==
    /\ pc = "idle"
    /\ \E d \in DTDates, x \in Operands \cup {LocalDateTime(SINGLETON_DT_MIN)} :
            Call("date - x", [a |-> Obj("Date", d), b |-> x],
                 date__sub__(Obj("Date", d), x))

NextDT ==
    \/ CallAdd
    \/ CallSubtract
    \/ CallDateTimeAdd
    \/ CallDateTimeSub
    \/ CallDateTimeRichcmp
    \/ CallNaiveSub
    \/ CallDifference
    \/ CallNaiveAssumeTz
    \/ CallAssumeTz
    \/ CallAssumeSystemTz
    \/ CallRound
    \/ CallParseDateAndTime
    \/ CallParseCommonIso
    \/ CallDateReduce
    \/ CallUnpickle
    \/ CallDateTimeReduce
    \/ CallDateTimeUnpickle
    \/ CallShiftNanos
    \/ CallDateAdd
    \/ CallDateSubtract
    \/ Return

SpecDT == Init /\ [][NextDT]_vars

(***************************************************************************)
(* Properties.  `Returned(name)` is the state right after a call of        *)
(* operation `name`: arg holds its inputs, res its result.                 *)
(***************************************************************************)
Returned(name) == pc = "done" /\ op = name

InOrdRange(n) == n >= MIN_ORD /\ n <= MAX_ORD

\* C1: ordinal round-trip: for every ordinal n in [1, 3_652_059], from_ord(n)
\* is a date and ord of that date is n again.
C1_OrdinalRoundTrip ==
    (Returned("from_ord") /\ InOrdRange(arg.n))
        => (res.some /\ ord(res.val) = arg.n)

\* an ordinal from the repository's test_ord_to_ymd: 730179 is 2000-02-29
C1_Witness ==
    Returned("from_ord") /\ arg.n = 730179 /\ res = Some(Date(2000, 2, 29))

\* C2: ord is a bijection between the valid dates and [1, 3_652_059]: ord(d) is
\* in range and from_ord leads back to d, the two ends map to the two ends, and
\* from_ord gives None for every integer outside the range.
C2_OrdinalBijection ==
    /\ Returned("ord") =>
            /\ InOrdRange(res)
            /\ from_ord(res) = Some(arg.self)
            /\ (arg.self = SINGLETON_MIN => res = 1)
            /\ (arg.self = SINGLETON_MAX => res = 3652059)
    /\ (Returned("from_ord") /\ ~InOrdRange(arg.n)) => res = None

C2_Witness ==
    Returned("ord") /\ arg.self = SINGLETON_MAX /\ res = MAX_ORD

\* the date a PyReturn carries, if it carries one
CarriesDate(r) == r.tag = "Ok" /\ r.obj.type = "Date"

\* C3: every date an operation returns on valid inputs is a valid calendar
\* date: 1 <= year <= 9999, 1 <= month <= 12, 1 <= day <= length of the month.
C3_EveryReturnedDateValid ==
    /\ (pc = "done" /\ op \in {"new", "from_longs", "from_ord", "shift_days",
                               "shift_months", "shift"})
            => (res.some => IsValidDate(res.val))
    /\ (Returned("increment") /\ arg.self # SINGLETON_MAX) => IsValidDate(res)
    /\ (Returned("decrement") /\ arg.self # SINGLETON_MIN) => IsValidDate(res)
    /\ (pc = "done" /\ op \in {"parse", "replace", "unpickle", "date + delta",
                               "date - delta"})
            => (CarriesDate(res) => IsValidDate(res.obj.val))

\* C4: increment and decrement move exactly one day: increment(d) is
\* shift_days(d, 1) unless d is 9999-12-31, decrement(d) is shift_days(d, -1)
\* unless d is 0001-01-01.
C4_IncrementDecrementOneDay ==
    /\ (Returned("increment") /\ arg.self # SINGLETON_MAX)
            => Some(res) = shift_days(arg.self, 1)
    /\ (Returned("decrement") /\ arg.self # SINGLETON_MIN)
            => Some(res) = shift_days(arg.self, -1)

\* C5: small_shift_unchecked agrees with exact arithmetic on seconds: with
\* t = seconds(dt.time) + s, the result r has ord(r.date) = ord(dt.date) +
\* floor(t / 86400) and seconds(r.time) = t mod 86400 (which is
\* ord(r.date)*86400 + seconds(r.time) = ord(dt.date)*86400 + seconds(dt.time) + s
\* with the whole days divided out), whenever that date is in range.
C5_SmallShiftExact ==
    Returned("small_shift_unchecked") =>
        LET t    == total_seconds(arg.self.time) + arg.secs
            day  == ord(arg.self.date) + (t \div S_PER_DAY)
        IN  InOrdRange(day) =>
                /\ res.date # Abort
                /\ IsValidDate(res.date)
                /\ ord(res.date) = day
                /\ total_seconds(res.time) = t % S_PER_DAY
                /\ res.time.nanos = arg.self.time.nanos

\* C6: date difference round-trip: the delta (months, days) that a - b returns,
\* added back to b (months first, then days), gives a.
C6_DifferenceRoundTrip ==
    Returned("date - date") =>
        /\ res.tag = "Ok"
        /\ res.obj.type = "DateDelta"
        /\ date__add__(Obj("Date", arg.b), res.obj) = Ok(Obj("Date", arg.a))

\* a difference that overshoots and is corrected: 2023-03-01 - 2023-01-31
C6_Witness ==
    /\ Returned("date - date")
    /\ arg.a = Date(2023, 3, 1)
    /\ arg.b = Date(2023, 1, 31)
    /\ res = Ok(Obj("DateDelta", DateDelta(1, 1)))

Min(x, y) == IF x <= y THEN x ELSE y

\* The month shift of the calendar: n = 12 q + r with 0 <= r < 12, so that
\* floor((month - 1 + n) / 12) = q + floor((month - 1 + r) / 12) is computed
\* exactly for every 32-bit n.
CalendarShiftMonths(d, n) ==
    LET q     == n \div 12
        r     == n % 12
        year  == d.year + q + ((d.month - 1 + r) \div 12)
        month == ((d.month - 1 + r) % 12) + 1
    IN  IF year >= 1 /\ year <= 9999
        THEN Some(Date(year, month, Min(d.day, MonthLength(year, month))))
        ELSE None

\* C7: month-shift clamping: shift_months(d, n) is the date in year
\* d.year + floor((d.month - 1 + n) / 12), month ((d.month - 1 + n) mod 12) + 1,
\* with the day clamped to the length of that month, and None exactly when that
\* year is outside 1..9999.
C7_ShiftMonthsClamps ==
    Returned("shift_months") => res = CalendarShiftMonths(arg.self, arg.months)

C7_Witness ==
    /\ Returned("shift_months")
    /\ arg.self = Date(2021, 1, 31)
    /\ arg.months = 1
    /\ res = Some(Date(2021, 2, 28))

\* C8: construction validity: new and from_longs return the date exactly when
\* the components are a valid calendar date (February has 29 days iff the year
\* is divisible by 4 and not by 100, or by 400), and no value otherwise.
C8_ConstructionValidity ==
    (pc = "done" /\ op \in {"new", "from_longs"}) =>
        res = IF IsValidDate(arg) THEN Some(Date(arg.year, arg.month, arg.day))
              ELSE None

\* new(1900, 2, 29) fails although 1900 is divisible by 4
C8_Witness ==
    Returned("new") /\ arg = Date(1900, 2, 29) /\ res = None

\* C9: shift_days(d, n) is the date with ordinal ord(d) + n when that is in
\* [1, 3_652_059], and None otherwise, also when ord(d) + n leaves 32 bits.
C9_ShiftDaysByOrdinal ==
    Returned("shift_days") =>
        IF add_overflows(ord(arg.self), arg.days) THEN res = None
        ELSE IF InOrdRange(ord(arg.self) + arg.days)
             THEN /\ res.some
                  /\ IsValidDate(res.val)
                  /\ ord(res.val) = ord(arg.self) + arg.days
             ELSE res = None

\* the sum of the ordinal and the shift does not fit in 32 bits
C9_Witness ==
    /\ Returned("shift_days")
    /\ arg.days = I32_MAX
    /\ arg.self = Date(2023, 3, 2)
    /\ res = None

\* months first (clamped, CalendarShiftMonths), then days along the ordinals;
\* no date as soon as either step has none
MonthsThenDays(d, months, days) ==
    LET moved == CalendarShiftMonths(d, months)
    IN  IF ~moved.some THEN None
        ELSE IF InOrdRange(ord(moved.val) + days)
             THEN from_ord(ord(moved.val) + days)
             ELSE None

OkOrValueError(option) ==
    IF option.some THEN Ok(Obj("Date", option.val)) ELSE Err("ValueError")

\* C10: calendar shifts apply months before days: shift(years, months, days) is
\* the month shift by months + 12 * years followed by the day shift on that
\* intermediate date, None as soon as either step is; Date + delta and
\* Date - delta apply the (negated) months, then the (negated) days.
C10_MonthsBeforeDays ==
    /\ Returned("shift") =>
            res = MonthsThenDays(arg.self, arg.months + 12 * arg.years, arg.days)
    /\ Returned("date + delta") =>
            res = OkOrValueError(MonthsThenDays(arg.self, arg.months, arg.days))
    /\ Returned("date - delta") =>
            res = OkOrValueError(MonthsThenDays(arg.self, -arg.months, -arg.days))

\* the intermediate date is out of range although the final date would not be
C10_Witness ==
    /\ Returned("shift")
    /\ arg.self = Date(9999, 12, 15)
    /\ arg.years = 0
    /\ arg.months = 1
    /\ arg.days = -40
    /\ res = None

(***************************************************************************)
(* Properties of LocalDateTime, checked under SpecDT                       *)
(***************************************************************************)
HasKey(kwargs, keys) == \E i \in 1..Len(kwargs) : kwargs[i][1] \in keys

OnlyKeys(kwargs, keys) == \A i \in 1..Len(kwargs) : kwargs[i][1] \in keys

Failed(r, kind) == r.tag = "Err" /\ r.exc = kind

\* the call passes ignore_dst=True and nothing else by keyword
OverrideOnly(kwargs) ==
    Len(kwargs) = 1 /\ kwargs[1][1] = "ignore_dst" /\ is_true(kwargs[1][2])

\* C11: exact-duration gating: add() and subtract() given an exact or a
\* composite delta of any magnitude, positionally or as exact-unit keyword
\* arguments, and no ignore_dst override, fail with ImplicitDstIgnored and
\* return no datetime.
C11_ExactDeltaGated ==
    (pc = "done" /\ op \in {"add", "subtract"}) =>
        LET positional == /\ Len(arg.args) = 1
                          /\ arg.args[1].type \in {"TimeDelta", "DateTimeDelta"}
                          /\ arg.kwargs = <<>>
            keywords   == /\ Len(arg.args) = 0
                          /\ HasKey(arg.kwargs, {"hours", "nanoseconds"})
                          /\ OnlyKeys(arg.kwargs, {"months", "days", "hours", "nanoseconds"})
        IN  (positional \/ keywords) => Failed(res, "ImplicitDstIgnored")

\* a carry out of the time of day, as the sum of the two readings has one
CarryOfSum(time, n) ==
    IF total_seconds(time) + n.secs
         + (IF time.nanos + n.nanos >= NS_PER_S THEN 1 ELSE 0) >= S_PER_DAY
    THEN 1 ELSE 0

\* a borrow from the day, as the time of day is less than the delta's
BorrowOfDifference(time, n) ==
    IF \/ total_seconds(time) < n.secs
       \/ total_seconds(time) = n.secs /\ time.nanos < n.nanos
    THEN 1 ELSE 0

\* instant(r) = instant(a) + n, with instant(x) = ord(x.date) * NS_PER_DAY
\* + total nanoseconds of x.time and n = n.days * NS_PER_DAY + n.secs * 10^9
\* + n.nanos: the days and seconds cancel up to one second, which the
\* nanoseconds make up
ExactSum(a, n, r) ==
    LET dd == ord(r.date) - ord(a.date) - n.days
        ds == total_seconds(r.time) - total_seconds(a.time) - n.secs
        dn == r.time.nanos - a.time.nanos - n.nanos
    IN  /\ dd \in {0, 1}
        /\ dd * S_PER_DAY + ds \in {0, 1}
        /\ (dd * S_PER_DAY + ds) * NS_PER_S + dn = 0

IsValidTime(t) ==
    /\ t.hour \in 0..23
    /\ t.minute \in 0..59
    /\ t.second \in 0..59
    /\ t.nanos \in 0..(NS_PER_S - 1)

IsValidDateTime(dt) == IsValidDate(dt.date) /\ IsValidTime(dt.time)

ReturnedDateTime(r) ==
    r.tag = "Ok" /\ r.obj.type = "LocalDateTime" /\ IsValidDateTime(r.obj.val)

\* C12: exact addition with the override: add(n, ignore_dst=True) returns the
\* datetime r with instant(r) = instant(dt) + n when that lies between the
\* instants of MIN and MAX and fails with an out-of-range error otherwise;
\* subtract(n, ignore_dst=True) returns the r with instant(r) + n = instant(dt)
\* under the same condition.
C12_ExactAddWithOverride ==
    LET exact == /\ Len(arg.args) = 1
                 /\ arg.args[1].type = "TimeDelta"
                 /\ OverrideOnly(arg.kwargs)
        dt    == arg.self
        n     == arg.args[1].val
    IN  /\ (Returned("add") /\ exact) =>
              IF InOrdRange(ord(dt.date) + n.days + CarryOfSum(dt.time, n))
              THEN ReturnedDateTime(res) /\ ExactSum(dt, n, res.obj.val)
              ELSE Failed(res, "ValueError")
        /\ (Returned("subtract") /\ exact) =>
              IF InOrdRange(ord(dt.date) - n.days - BorrowOfDifference(dt.time, n))
              THEN ReturnedDateTime(res) /\ ExactSum(res.obj.val, n, dt)
              ELSE Failed(res, "ValueError")

\* one nanosecond past the last instant of 2023
C12_Witness ==
    /\ Returned("add")
    /\ arg.self = DateTime(Date(2023, 12, 31), Time(23, 59, 59, 999999999))
    /\ Len(arg.args) = 1
    /\ arg.args[1].type = "TimeDelta"
    /\ arg.args[1].val = Nanos(0, 0, 0, 1)
    /\ OverrideOnly(arg.kwargs)
    /\ res.tag = "Ok"
    /\ res.obj.val = DateTime(Date(2024, 1, 1), Time(0, 0, 0, 0))

\* the date and time a calendar shift of dt must return, if any
CalendarShifted(dt, months, days) ==
    LET moved == MonthsThenDays(dt.date, months, days)
    IN  IF moved.some THEN Some(DateTime(moved.val, dt.time)) ELSE None

ShiftedOrOutOfRange(r, expected) ==
    IF expected.some
    THEN r.tag = "Ok" /\ r.obj.type = "LocalDateTime" /\ r.obj.val = expected.val
    ELSE Failed(r, "ValueError")

\* C13: calendar-only shifts and comparison are never gated: dt + CalendarDelta,
\* dt - CalendarDelta and add()/subtract() with calendar units only, with or
\* without the override flag, return the datetime shifted by the months and
\* then the days (time of day unchanged) or fail as out of range, never with
\* ImplicitDstIgnored; comparing two datetimes returns a truth value.
C13_CalendarShiftsNotGated ==
    /\ (Returned("datetime + x") /\ arg.b.type = "DateDelta") =>
          ShiftedOrOutOfRange(res, CalendarShifted(arg.a.val, arg.b.val.months,
                                                   arg.b.val.days))
    /\ (Returned("datetime - x") /\ arg.b.type = "DateDelta") =>
          ShiftedOrOutOfRange(res, CalendarShifted(arg.a.val, -arg.b.val.months,
                                                   -arg.b.val.days))
    /\ (/\ pc = "done" /\ op \in {"add", "subtract"}
        /\ Len(arg.args) = 1 /\ arg.args[1].type = "DateDelta"
        /\ (arg.kwargs = <<>> \/ (Len(arg.kwargs) = 1 /\ arg.kwargs[1][1] = "ignore_dst"))) =>
          LET sign == IF op = "add" THEN 1 ELSE -1
          IN  ShiftedOrOutOfRange(res,
                  CalendarShifted(arg.self, sign * arg.args[1].val.months,
                                  sign * arg.args[1].val.days))
    /\ (/\ pc = "done" /\ op \in {"add", "subtract"}
        /\ Len(arg.args) = 0
        /\ OnlyKeys(arg.kwargs, {"months", "days", "ignore_dst"})) =>
          ~Failed(res, "ImplicitDstIgnored") /\ res.tag \in {"Ok", "Err"}
    /\ (Returned("richcmp") /\ arg.b.type = "LocalDateTime") =>
          res.tag = "Ok" /\ res.obj.type = "bool"

\* 2023-01-31 + 1 month through the operator, no override anywhere
C13_Witness ==
    /\ Returned("datetime + x")
    /\ arg.b.type = "DateDelta"
    /\ arg.b.val = DateDelta(1, 0)
    /\ arg.a.val = DateTime(Date(2023, 1, 31), Time(12, 30, 15, 500000000))
    /\ res.tag = "Ok"
    /\ res.obj.val = DateTime(Date(2023, 2, 28), Time(12, 30, 15, 500000000))

\* t + u = 0 for two nanosecond counts
IsNegation(t, u) ==
    LET cn == (t.nanos + u.nanos) \div NS_PER_S
        cs == (t.secs + u.secs + cn) \div S_PER_DAY
    IN  /\ (t.nanos + u.nanos) % NS_PER_S = 0
        /\ (t.secs + u.secs + cn) % S_PER_DAY = 0
        /\ t.days + u.days + cs = 0
        /\ t.hi = 0 /\ u.hi = 0

\* C14: exact difference: the difference computed for two datetimes a and b is
\* the t with instant(b) + t = instant(a), that is
\* (ord(a.date) - ord(b.date)) * NS_PER_DAY + total_nanos(a.time)
\* - total_nanos(b.time); it is zero iff a = b, and the difference of b and a
\* is its negation.
C14_ExactDifference ==
    /\ Returned("naive - naive") =>
          /\ res.tag = "Ok" /\ res.obj.type = "TimeDelta"
          /\ res.obj.val.hi = 0
          /\ ExactSum(arg.b, res.obj.val, arg.a)
          /\ (res.obj.val = NanosZero) <=> (arg.a = arg.b)
          /\ IsNegation(res.obj.val,
                        naive__sub__(NaiveDateTime(arg.b), NaiveDateTime(arg.a)).obj.val)
    /\ (/\ Returned("difference")
        /\ Len(arg.args) = 1 /\ arg.args[1].type = "LocalDateTime"
        /\ OverrideOnly(arg.kwargs)) =>
          /\ res.tag = "Ok" /\ res.obj.type = "TimeDelta"
          /\ res.obj.val.hi = 0
          /\ ExactSum(arg.args[1].val, res.obj.val, arg.self)
          /\ (res.obj.val = NanosZero) <=> (arg.self = arg.args[1].val)
          /\ IsNegation(res.obj.val,
                        difference(arg.args[1], <<LocalDateTime(arg.self)>>,
                                   arg.kwargs).obj.val)

\* from the last nanosecond of 2023 back to its first instant
C14_Witness ==
    /\ Returned("naive - naive")
    /\ arg.a = DateTime(Date(2023, 1, 1), Time(0, 0, 0, 0))
    /\ arg.b = DateTime(Date(2023, 12, 31), Time(23, 59, 59, 999999999))
    /\ res.tag = "Ok"
    /\ res.obj.val = Nanos(0, -365, 0, 1)

\* a call of one of the three resolving methods, well formed and naming a policy
Resolving(policy) ==
    /\ pc = "done"
    /\ op \in {"naive assume_tz", "assume_tz", "assume_system_tz"}
    /\ Len(arg.args) = (IF op = "assume_system_tz" THEN 0 ELSE 1)
    /\ Len(arg.kwargs) = 1
    /\ arg.kwargs[1] = <<"disambiguate", policy>>

ResolvedAs(r, value) ==
    /\ r.tag = "Ok"
    /\ r.obj.type \in {"ZonedDateTime", "SystemDateTime"}
    /\ r.obj.val = value

\* C15: fold resolution: with two candidate offsets, Compatible and Earlier
\* select the earlier candidate, Later the later one, Raise fails with
\* AmbiguousTime and resolves nothing; with one candidate every policy returns
\* it.
C15_FoldResolution ==
    /\ \A policy \in {"compatible", "earlier"} :
          (Resolving(policy) /\ arg.lookup.kind = "Fold") =>
              ResolvedAs(res, Resolved(arg.self, arg.lookup.first))
    /\ (Resolving("later") /\ arg.lookup.kind = "Fold") =>
              ResolvedAs(res, Resolved(arg.self, arg.lookup.second))
    /\ (Resolving("raise") /\ arg.lookup.kind = "Fold") =>
              Failed(res, "AmbiguousTime")
    /\ \A policy \in {"compatible", "earlier", "later", "raise"} :
          (Resolving(policy) /\ arg.lookup.kind = "Unambiguous") =>
              ResolvedAs(res, Resolved(arg.self, arg.lookup.first))

\* 2023-01-01T00:00:00 occurring twice, policy Raise
C15_Witness ==
    /\ Resolving("raise")
    /\ op = "naive assume_tz"
    /\ arg.lookup = Fold(7200, 3600)
    /\ arg.self = DateTime(Date(2023, 1, 1), Time(0, 0, 0, 0))
    /\ Failed(res, "AmbiguousTime")

C17_RoundingCarry ==
    Returned("round") =>
        LET carry == time_round(arg.self.time, arg.increment, arg.mode).next_day
        IN  IF carry = 1
            THEN IF arg.self.date = Date(9999, 12, 31)
                 THEN Failed(res, "ValueError")
                 ELSE /\ res.tag = "Ok"
                      /\ IsValidDate(res.obj.val.date)
                      /\ ord(res.obj.val.date) = ord(arg.self.date) + 1
            ELSE /\ carry = 0
                 /\ res.tag = "Ok"
                 /\ res.obj.val.date = arg.self.date

(***************************************************************************)
(* Properties of Date, continued (checked under Spec)                      *)
(***************************************************************************)
\* C18: no integer overflow in calendar shifts: for every valid date, 32-bit
\* months and 16-bit years, shift_months and shift form d.month + months - 1
\* and months + years * 12 within the signed 32-bit range, and return None
\* whenever the exact target year is outside 1..9999.
C18_NoOverflowInShifts ==
    /\ Returned("shift_months") =>
          /\ ~shift_months_overflows(arg.self, arg.months)
          /\ ~CalendarShiftMonths(arg.self, arg.months).some => res = None
    /\ Returned("shift") =>
          /\ ~shift_overflows(arg.self, arg.years, arg.months)
          /\ ~CalendarShiftMonths(arg.self, arg.months + 12 * arg.years).some
                => res = None

(***************************************************************************)
(* Properties of LocalDateTime, continued (checked under SpecDT)           *)
(***************************************************************************)
\* the value of a decimal digit, -1 for any other character
DigitValue(c) ==
    CASE c = "0" -> 0 [] c = "1" -> 1 [] c = "2" -> 2 [] c = "3" -> 3 [] c = "4" -> 4
      [] c = "5" -> 5 [] c = "6" -> 6 [] c = "7" -> 7 [] c = "8" -> 8 [] c = "9" -> 9
      [] OTHER -> -1

AllDigits(s, positions) == \A i \in positions : DigitValue(s[i]) >= 0

\* the date a text YYYY-MM-DD denotes
TextDate(d) ==
    Date(1000 * DigitValue(d[1]) + 100 * DigitValue(d[2]) + 10 * DigitValue(d[3])
            + DigitValue(d[4]),
         10 * DigitValue(d[6]) + DigitValue(d[7]),
         10 * DigitValue(d[9]) + DigitValue(d[10]))

IsDateText(d) ==
    /\ Len(d) = 10
    /\ d[5] = "-" /\ d[8] = "-"
    /\ AllDigits(d, {1, 2, 3, 4, 6, 7, 9, 10})
    /\ IsValidDate(TextDate(d))

\* the i-th character of a time text as nanoseconds: the first fractional
\* digit, at position 10, counts 10^8
FractionDigit(t, i) == IF i <= Len(t) THEN DigitValue(t[i]) * 10 ^ (18 - i) ELSE 0

\* the time a text HH:MM:SS[.fffffffff] denotes
TextTime(t) ==
    Time(10 * DigitValue(t[1]) + DigitValue(t[2]),
         10 * DigitValue(t[4]) + DigitValue(t[5]),
         10 * DigitValue(t[7]) + DigitValue(t[8]),
         FractionDigit(t, 10) + FractionDigit(t, 11) + FractionDigit(t, 12)
            + FractionDigit(t, 13) + FractionDigit(t, 14) + FractionDigit(t, 15)
            + FractionDigit(t, 16) + FractionDigit(t, 17) + FractionDigit(t, 18))

IsTimeText(t) ==
    /\ Len(t) >= 8
    /\ t[3] = ":" /\ t[6] = ":"
    /\ AllDigits(t, {1, 2, 4, 5, 7, 8})
    /\ \/ Len(t) = 8
       \/ /\ t[9] = "."
          /\ Len(t) \in 10..18
          /\ AllDigits(t, 10..Len(t))
    /\ IsValidTime(TextTime(t))

\* C19: parse strictness of the combined text: parse_date_and_time returns a
\* value only when the first 10 bytes are a valid YYYY-MM-DD date and the bytes
\* after the separator are HH:MM:SS with fields in range, optionally followed by
\* '.' and 1 to 9 digits, and then returns exactly the date and time they
\* denote (a 9-digit fraction is the nanosecond value); everything else is
\* rejected: a '.' with no digit, 10 or more fractional digits, a minute out of
\* range, an impossible date.
C19_ParseStrictness ==
    /\ Returned("parse_date_and_time") =>
          LET d == SubSeq(arg.s, 1, 10)
              t == SubSeq(arg.s, 12, Len(arg.s))
          IN  IF IsDateText(d) /\ IsTimeText(t)
              THEN res.some /\ res.val = DateTime(TextDate(d), TextTime(t))
              ELSE ~res.some
    /\ Returned("parse_common_iso") =>
          IF /\ Len(arg.s) >= 19
             /\ arg.s[11] = "T"
             /\ IsDateText(SubSeq(arg.s, 1, 10))
             /\ IsTimeText(SubSeq(arg.s, 12, Len(arg.s)))
          THEN /\ res.tag = "Ok"
               /\ res.obj.val = DateTime(TextDate(SubSeq(arg.s, 1, 10)),
                                         TextTime(SubSeq(arg.s, 12, Len(arg.s))))
          ELSE Failed(res, "ValueError")

\* "2023-03-02 02:09:09.123456789" gives nanosecond 123456789
C19_Witness ==
    /\ Returned("parse_date_and_time")
    /\ arg.s = <<"2", "0", "2", "3", "-", "0", "3", "-", "0", "2", " ",
                "0", "2", ":", "0", "9", ":", "0", "9", ".", "1", "2", "3", "4", "5", "6", "7", "8", "9">>
    /\ res = Some(DateTime(Date(2023, 3, 2), Time(2, 9, 9, 123456789)))

IsBytes(packed, n) == Len(packed) = n /\ \A i \in 1..n : packed[i] \in 0..255

\* C20: binary round trip: the encoding of a valid date is 4 bytes (year as
\* u16, month, day), that of a valid datetime 11 bytes (adding hour, minute,
\* second and the nanosecond as u32), and decoding the encoding of a value
\* returns that value; a payload that decodes is the encoding of what it
\* decodes to.
C20_BinaryRoundTrip ==
    /\ Returned("date reduce") =>
          /\ IsBytes(res, 4)
          /\ res[1] + 256 * res[2] = arg.self.year
          /\ res[3] = arg.self.month /\ res[4] = arg.self.day
          /\ date_unpickle(res).tag = "Ok"
          /\ date_unpickle(res).obj.val = arg.self
    /\ Returned("datetime reduce") =>
          /\ IsBytes(res, 11)
          /\ SubSeq(res, 1, 4) = date_pack(arg.self.date)
          /\ <<res[5], res[6], res[7]>>
                = <<arg.self.time.hour, arg.self.time.minute, arg.self.time.second>>
          /\ res[8] + 256 * res[9] + 65536 * res[10] + 16777216 * res[11]
                = arg.self.time.nanos
          /\ datetime_unpickle(res).tag = "Ok"
          /\ datetime_unpickle(res).obj.val = arg.self
    /\ (Returned("unpickle") /\ res.tag = "Ok") => date_pack(res.obj.val) = arg.packed
    /\ (Returned("datetime unpickle") /\ res.tag = "Ok") =>
          datetime_pack(res.obj.val) = arg.packed

\* the last representable instant, encoded and decoded
C20_Witness ==
    /\ Returned("datetime unpickle")
    /\ arg.packed = <<15, 39, 12, 31, 23, 59, 59, 255, 201, 154, 59>>
    /\ res.tag = "Ok"
    /\ res.obj.val = SINGLETON_DT_MAX


(***************************************************************************)
(* Properties of decoding, comparison and exact shifts                     *)
(* (checked under SpecDT)                                                  *)
(***************************************************************************)
WrongLengthDatePayloads == {p \in Payloads : Len(p) # 4}

WrongLengthDateTimePayloads == {p \in DateTimePayloads : Len(p) # 11}

\* C21: wrong-length decode: decoding a payload whose length is not the
\* type's width (4 for a date, 11 for a datetime) fails, constructs no value,
\* and the error is of one and the same kind for both types.
C21_WrongLengthDecode ==
    /\ (Returned("unpickle") /\ Len(arg.packed) # 4) =>
          /\ res.tag = "Err"
          /\ \A p \in WrongLengthDateTimePayloads : datetime_unpickle(p) = res
    /\ (Returned("datetime unpickle") /\ Len(arg.packed) # 11) =>
          /\ res.tag = "Err"
          /\ \A p \in WrongLengthDatePayloads : date_unpickle(p) = res

RECURSIVE LexLess(_, _)
\* the lexicographic order on two tuples of integers of one length
LexLess(s, t) ==
    IF s = <<>> THEN FALSE
    ELSE s[1] < t[1] \/ (s[1] = t[1] /\ LexLess(Tail(s), Tail(t)))

Fields(dt) ==
    <<dt.date.year, dt.date.month, dt.date.day,
      dt.time.hour, dt.time.minute, dt.time.second, dt.time.nanos>>

\* ord(date) * 86_400_000_000_000 + total_nanos(time), written in the mixed
\* radix (days, seconds of the day, nanoseconds of the second): two such
\* numbers compare as their digits do
Linearization(dt) ==
    <<ord(dt.date),
      3600 * dt.time.hour + 60 * dt.time.minute + dt.time.second,
      dt.time.nanos>>

\* C22: ordering: comparison of two datetimes is the lexicographic order on
\* (year, month, day, hour, minute, second, nanosecond); it is total (exactly
\* one of a < b, a = b, b < a); and it is the order of the linearizations,
\* ord being strictly increasing on the dates.
C22_Ordering ==
    (Returned("richcmp") /\ arg.b.type = arg.a.type) =>
        LET a == arg.a.val
            b == arg.b.val
            less == LexLess(Fields(a), Fields(b))
            more == LexLess(Fields(b), Fields(a))
        IN  /\ res.tag = "Ok"
            /\ res.obj.val =
                  (CASE arg.cmp = "Py_LT" -> less
                     [] arg.cmp = "Py_LE" -> ~more
                     [] arg.cmp = "Py_EQ" -> a = b
                     [] arg.cmp = "Py_NE" -> a # b
                     [] arg.cmp = "Py_GT" -> more
                     [] arg.cmp = "Py_GE" -> ~less)
            /\ (less /\ ~more /\ a # b) \/ (~less /\ more /\ a # b)
                  \/ (~less /\ ~more /\ a = b)
            /\ less <=> LexLess(Linearization(a), Linearization(b))
            /\ LexLess(<<a.date.year, a.date.month, a.date.day>>,
                       <<b.date.year, b.date.month, b.date.day>>)
                  <=> ord(a.date) < ord(b.date)

\* the last nanosecond of January against the first of 28 February: every
\* field but the month is larger on the left
C22_Witness ==
    /\ Returned("richcmp")
    /\ arg.cmp = "Py_LT"
    /\ arg.a.val = DateTime(Date(2023, 1, 31), Time(23, 59, 59, 999999999))
    /\ arg.b = LocalDateTime(DateTime(Date(2023, 2, 28), Time(0, 0, 0, 0)))
    /\ res = Ok(Obj("bool", TRUE))

\* |n| is at most instant(MAX) - instant(MIN)
WithinExactDeltaBound(n) ==
    /\ n.hi = 0
    /\ n.days >= -MAX_ORD /\ n.days <= MAX_ORD - 1
    /\ n.days = -MAX_ORD => (n.secs # 0 \/ n.nanos # 0)

\* floor((total_nanos(dt.time) + n) / NS_PER_DAY), for n.hi = 0 and n.days
\* within a few million
DayCarry(dt, n) == n.days + CarryOfSum(dt.time, n)

\* C23: shift_nanos is exact within the exact-delta bound: for |n| up to the
\* MIN-to-MAX span, shift_nanos(dt, n) is Some(r) with instant(r) =
\* instant(dt) + n when that lies between the instants of MIN and MAX and None
\* otherwise; r's time of day is (total_nanos(dt.time) + n) mod NS_PER_DAY and
\* its date is floor((total_nanos(dt.time) + n) / NS_PER_DAY) days from dt's.
C23_ShiftNanosExact ==
    (Returned("shift_nanos") /\ WithinExactDeltaBound(arg.nanos)) =>
        LET dt == arg.self
            n  == arg.nanos
            ns == dt.time.nanos + n.nanos
            ss == total_seconds(dt.time) + n.secs + (ns \div NS_PER_S)
        IN  IF InOrdRange(ord(dt.date) + DayCarry(dt, n))
            THEN /\ res.some
                 /\ IsValidDateTime(res.val)
                 /\ ExactSum(dt, n, res.val)
                 /\ total_seconds(res.val.time) = ss % S_PER_DAY
                 /\ res.val.time.nanos = ns % NS_PER_S
                 /\ ord(res.val.date) = ord(dt.date) + DayCarry(dt, n)
            ELSE res = None

\* one nanosecond before the first instant of 2023
C23_Witness ==
    /\ Returned("shift_nanos")
    /\ arg.self = DateTime(Date(2023, 1, 1), Time(0, 0, 0, 0))
    /\ arg.nanos = Nanos(0, -1, S_PER_DAY - 1, NS_PER_S - 1)
    /\ res = Some(DateTime(Date(2022, 12, 31), Time(23, 59, 59, 999999999)))

\* instant(dt) + n lies between the instants of MIN and MAX: the day
\* quotient of n needs no more than its low limb, and the target day is one
InstantInRange(dt, n) ==
    /\ n.hi = 0
    /\ n.days >= -MAX_ORD - 1 /\ n.days <= MAX_ORD
    /\ InOrdRange(ord(dt.date) + DayCarry(dt, n))

\* C30: shift_nanos is sound for every 128-bit n: it returns Some(r) only if
\* instant(r) = instant(dt) + n, and it returns None whenever instant(dt) + n
\* lies outside the instants of MIN and MAX, also when the day carry does not
\* fit in a signed 32-bit integer.
C30_ShiftNanosSound ==
    Returned("shift_nanos") =>
        (res.some => /\ InstantInRange(arg.self, arg.nanos)
                     /\ ExactSum(arg.self, arg.nanos, res.val))

\* the call does not pass the override: no keyword at all, or ignore_dst with
\* a value other than True
WithoutOverride(kwargs) ==
    \/ kwargs = <<>>
    \/ Len(kwargs) = 1 /\ kwargs[1][1] = "ignore_dst" /\ ~is_true(kwargs[1][2])

\* C24: exact operators and differences on naive local values are refused:
\* dt + d and dt - d with d an exact or a composite delta fail with
\* ImplicitDstIgnored, dt - dt of two local datetimes fails with
\* ImplicitDstIgnored, and difference() fails with ImplicitDstIgnored unless
\* the override flag is passed (and then, given a local datetime, returns the
\* duration).
C24_ExactOperatorsRefused ==
    /\ (/\ pc = "done" /\ op \in {"datetime + x", "datetime - x"}
        /\ arg.b.type \in {"TimeDelta", "DateTimeDelta"}) =>
          Failed(res, "ImplicitDstIgnored")
    /\ (Returned("datetime - x") /\ arg.b.type = arg.a.type) =>
          Failed(res, "ImplicitDstIgnored")
    /\ (Returned("difference") /\ WithoutOverride(arg.kwargs)) =>
          Failed(res, "ImplicitDstIgnored")
    /\ (/\ Returned("difference") /\ OverrideOnly(arg.kwargs)) =>
          /\ ~Failed(res, "ImplicitDstIgnored")
          /\ (Len(arg.args) = 1 /\ arg.args[1].type = "LocalDateTime") =>
                (res.tag = "Ok" /\ res.obj.type = "TimeDelta")

\* the last instant minus the first, through the operator
C24_Witness ==
    /\ Returned("datetime - x")
    /\ arg.a = LocalDateTime(SINGLETON_DT_MAX)
    /\ arg.b = LocalDateTime(SINGLETON_DT_MIN)
    /\ Failed(res, "ImplicitDstIgnored")

\* C25: unsupported operand dispatch: when the other operand of + or - is not
\* one of the supported delta kinds (nor, for -, a value of the same kind),
\* the operator returns the "not supported" signal and raises no error, for
\* an operand of the same module as for a foreign one, on Date as on
\* LocalDateTime.
C25_UnsupportedOperand ==
    /\ (/\ pc = "done" /\ op \in {"datetime + x", "datetime - x"}
        /\ arg.b.type \notin {"DateDelta", "TimeDelta", "DateTimeDelta"}
        /\ (op = "datetime - x" => arg.b.type # arg.a.type)) =>
          res.tag = "NotImplemented"
    /\ (/\ pc = "done" /\ op \in {"date + x", "date - x"}
        /\ arg.b.type # "DateDelta"
        /\ (op = "date - x" => arg.b.type # arg.a.type)) =>
          res.tag = "NotImplemented"

\* the combined text the claim accepts
IsDateTimeText(s) ==
    /\ Len(s) >= 19
    /\ s[11] \in {"T", "t", " ", "_"}
    /\ IsDateText(SubSeq(s, 1, 10))
    /\ IsTimeText(SubSeq(s, 12, Len(s)))

\* C26: combined date-time separator: parsing the combined text accepts an
\* input exactly when it is at least 19 bytes long, its byte 10 (counted from
\* 0) is 'T', 't', a space or '_', and the date and time parts are valid: each
\* of the four separators is accepted and every other byte there is rejected.
C26_Separator ==
    /\ Returned("parse_date_and_time") => (res.some <=> IsDateTimeText(arg.s))
    /\ Returned("parse_common_iso") => ((res.tag = "Ok") <=> IsDateTimeText(arg.s))


(***************************************************************************)
(* Properties of Date, continued (checked under Spec)                      *)
(***************************************************************************)
\* C27: date subtraction is total: for valid dates a and b, a - b never
\* fails: every b.shift_months(..) it performs, the first estimate and the
\* corrected one, returns a date, so that no unwrap meets None, and the day
\* arithmetic stays within the signed 8-bit range.
C27_DateSubtractionTotal ==
    Returned("date - date") =>
        /\ res.tag # "Panicked"
        /\ res.tag = "Ok"
        /\ res.obj.type = "DateDelta"
        /\ \A x \in date_difference_i8_values(arg.a, arg.b) : x >= -128 /\ x <= 127

\* the estimate from 9999-02-28 lands on 0001-01-28, below 0001-01-31, and
\* is corrected by one month
C27_Witness ==
    /\ Returned("date - date")
    /\ arg.a = Date(1, 1, 31)
    /\ arg.b = Date(9999, 2, 28)
    /\ res = Ok(Obj("DateDelta", DateDelta(-119976, -28)))

\* C28: date difference is sign-consistent: the (months, days) that a - b
\* returns has months >= 0 and days >= 0 when a >= b, months <= 0 and
\* days <= 0 when a <= b, and is (0, 0) exactly when a = b; the two components
\* never have opposite signs.
C28_DifferenceSignConsistent ==
    (Returned("date - date") /\ res.tag = "Ok") =>
        LET months == res.obj.val.months
            days   == res.obj.val.days
            a_lt_b == LexLess(<<arg.a.year, arg.a.month, arg.a.day>>,
                              <<arg.b.year, arg.b.month, arg.b.day>>)
            b_lt_a == LexLess(<<arg.b.year, arg.b.month, arg.b.day>>,
                              <<arg.a.year, arg.a.month, arg.a.day>>)
        IN  /\ ~a_lt_b => (months >= 0 /\ days >= 0)
            /\ ~b_lt_a => (months <= 0 /\ days <= 0)
            /\ (months = 0 /\ days = 0) <=> (arg.a = arg.b)
            /\ ~(months > 0 /\ days < 0) /\ ~(months < 0 /\ days > 0)

\* from 2023-03-01 back to 2023-01-31: one month and one day, both negative
C28_Witness ==
    /\ Returned("date - date")
    /\ arg.a = Date(2023, 1, 31)
    /\ arg.b = Date(2023, 3, 1)
    /\ res = Ok(Obj("DateDelta", DateDelta(-1, -1)))

\* C29: small_shift_unchecked never reaches its unreachable arm: for a valid
\* time of day and |secs| < 172_800, floor((seconds since midnight + secs) /
\* 86_400) is one of -2, -1, 0, 1, 2, and the seconds handed to set_seconds in
\* the arm selected lie in 0..86_399 (they are the sum modulo 86_400, and the
\* time of day returned carries them).
C29_SmallShiftArms ==
    (/\ Returned("small_shift_unchecked")
     /\ IsValidTime(arg.self.time)
     /\ arg.secs > -2 * S_PER_DAY /\ arg.secs < 2 * S_PER_DAY) =>
        LET days == small_shift_days(arg.self, arg.secs)
            handed == small_shift_seconds(arg.self, arg.secs)
            t == 3600 * arg.self.time.hour + 60 * arg.self.time.minute
                    + arg.self.time.second + arg.secs
        IN  /\ days \in {-2, -1, 0, 1, 2}
            /\ days = t \div S_PER_DAY
            /\ handed \in 0..(S_PER_DAY - 1)
            /\ handed = t % S_PER_DAY
            /\ 3600 * res.time.hour + 60 * res.time.minute + res.time.second = handed

\* one second less than two days after 23:59:59: the arm for two days
C29_Witness ==
    /\ Returned("small_shift_unchecked")
    /\ arg.self.time = Time(23, 59, 59, 999999999)
    /\ arg.secs = 2 * S_PER_DAY - 1
    /\ small_shift_days(arg.self, arg.secs) = 2
    /\ res.time = Time(23, 59, 58, 999999999)

====
